---------------------------- MODULE Spec2Model ----------------------------
(***************************************************************************)
(* Model of the BentoPDF document manager (documentManager.ts), the main   *)
(* canvas render path of the viewer (viewer.ts) and the OCR session of     *)
(* toolOperations.ts with its worker (workers/ocrWorker.js).               *)
(*                                                                         *)
(* Three specifications share the module:                                  *)
(*   Spec        the document registry with undo/redo and the asynchronous *)
(*               updateDocumentBytes / undo / redo / create tasks          *)
(*   SpecRender  overlapping renderCurrentPage calls on the main canvas    *)
(*   SpecOcr     one OCR session, its worker and the cancel button         *)
(* Every await of the source is a point where a task is suspended and any  *)
(* other handler may run; one action is one synchronous stretch of code.   *)
(***************************************************************************)
EXTENDS Integers, Sequences, FiniteSets, TLC

(***************************************************************************)
(* Bounds                                                                  *)
(***************************************************************************)
\* number of byte buffers ever produced (opens and edits together)
MaxClock == 3
\* number of asynchronous registry operations suspended at the same time
MaxTasks == 2
\* largest page count of a byte buffer
MaxPages == 2

\* documentManager.ts
VARIABLES
  documents,       \* documentManager.ts: const documents: Document[] (ids, tab order)
  heap,            \* the Document objects ever created, by id (closed ones included)
  activeDocIndex,  \* documentManager.ts: let activeDocIndex = -1
  tabIdCounter,    \* documentManager.ts: let tabIdCounter = 0
  tasks,           \* suspended async calls of create/update/undo/redo
  clock,           \* Date.now(); also numbers the byte buffers produced
  ref              \* observation: per document, the history the calls describe

docVars == <<documents, heap, activeDocIndex, tabIdCounter, tasks, clock, ref>>

\* viewer.ts, the main canvas
VARIABLES
  reqs,               \* the renderCurrentPage calls made so far, in call order
  currentRenderTask,  \* viewer.ts: let currentRenderTask = null (0), else the call owning the task
  canvas              \* what the main canvas shows: 0 blank, else the call whose render drew it

renderVars == <<reqs, currentRenderTask, canvas>>

\* toolOperations.ts ocr() and its worker
VARIABLES
  ocrPc,        \* where ocr() stands: "idle", "getPage", "render", "recognize", "fallback", "done"
  targets,      \* const targets: the page numbers to recognize, in order
  idx,          \* position in targets of the page the for loop is at
  worker,       \* let worker: "none" (null), "alive" or "terminated"
  cancelled,    \* let cancelled = false
  listening,    \* the 'bentopdf-ocr-cancel' listener is registered on window
  modalOpen,    \* the text modal (and with it the Cancel button) is in the DOM
  fullText,     \* let fullText = '': the sections appended so far
  published,    \* the argument of the last modal.updateText call
  pendingId,    \* id of the recognize request whose promise is pending
  inbox,        \* messages posted to the worker and not yet handled
  outbox,       \* messages posted by the worker and not yet dispatched
  jobs,         \* worker side: the Tesseract.recognize calls in progress
  outcomes,     \* observation: how each page the loop left ended, in loop order
  ocrDoc,       \* const doc = getActiveDocument(): the document of the session (0 when
                \* the registry is left out of the specification)
  progress      \* the percentage last given to modal.updateProgress

ocrVars == <<ocrPc, targets, idx, worker, cancelled, listening, modalOpen,
             fullText, published, pendingId, inbox, outbox, jobs, outcomes, ocrDoc, progress>>

\* toolOperations.ts, the tools that edit the active document
VARIABLES
  tools         \* the tool operations suspended between loading the bytes and saving

toolVars == <<tools>>

\* documentManager.ts downloadActiveDocument
VARIABLES
  fileName,     \* doc.fileName of the documents of the session, one character per element
  download      \* a.download of the last link clicked, <<>> before the first download

exportVars == <<fileName, download>>

\* state.ts and the tools of toolOperations.ts that work on the selection
VARIABLES
  selectedPageIndices,  \* state.ts: state.selectedPageIndices
  lastRun,              \* observation: what the last selection tool read and which page
                        \* indices it acted on
  toolTasks             \* the registry calls a selection tool awaits before clearPageSelection()

selVars == <<selectedPageIndices, lastRun, toolTasks>>

\* main.ts handleFiles
VARIABLES
  isProcessing,  \* state.ts: state.isProcessing
  alertShown,    \* title of the last showAlert of handleFiles, "none" before the first
  fileQueue,     \* the files of pdfFiles the for loop has not reached yet
  filesPc,       \* where handleFiles stands: "idle", "next" (before openDocument(file))
                 \* or "opening" (awaiting it)
  filesTask      \* the slot of the createDocumentFromBytes call handleFiles awaits, else 0

openVars == <<isProcessing, alertShown, fileQueue, filesPc, filesTask>>

\* what the byte buffers hold
VARIABLES
  contents,     \* per byte buffer (by its number v): its pages in order, each with the
                \* page of the opened file it came from and its /Rotate angle; <<>> when
                \* the specification leaves the contents out
  lastEdit      \* observation: the tool that saved last, the pages and the undo depth of
                \* the document it found, what it was given and the buffer it saved

pdfVars == <<contents, lastEdit>>

\* viewer.ts zoom controls and refreshViewer
VARIABLES
  currentZoom,  \* viewer.ts: let currentZoom = 1.0, in hundredths; NaN when it is not a number
  fitting,      \* number of fitToPage calls awaiting doc.pdfJsDoc.getPage
  refreshing,   \* the renderCurrentPage calls a refreshViewer call awaits
  thumbnails    \* number of renderThumbnails calls made so far

zoomVars == <<currentZoom, fitting, refreshing, thumbnails>>

\* toolOperations.ts ocr() called again while an earlier call is suspended
VARIABLES
  sessions,     \* the ocr() calls made so far: targets, position in them, the
                \* call's "let cancelled", whether its cancelListener is on window
  textModal     \* the call whose results modal is the #text-modal in the DOM, 0 for none

runVars == <<sessions, textModal>>

\* toolOperations.ts splitPDF()
VARIABLES
  split         \* the splitPDF call: where it is suspended, the document and the
                \* bytes it loaded, its loop index i, the slot of the
                \* createDocumentFromBytes call it awaits, and the documents it
                \* made so far, each with the page index it was made of

splitVars == <<split>>

\* viewer.ts renderCurrentPage(doc) and the handle it reads
VARIABLES
  via           \* per renderCurrentPage call (as reqs): the doc.pdfJsDoc it called
                \* getPage on, by the number of the buffer the handle was opened
                \* from, and whether that handle has been destroyed since

\* viewer.ts renderThumbnail(pdfDoc, pageNum, canvas)
VARIABLES
  thumbs        \* the renderThumbnail calls made so far: the renderThumbnails call
                \* that made it, its page number, and where it stands

viewVars == <<via, thumbs>>

vars == <<docVars, renderVars, ocrVars, toolVars, exportVars, selVars, openVars, pdfVars, zoomVars, runVars, splitVars, viewVars>>

(***************************************************************************)
(* Byte buffers, handles, page metadata                                    *)
(***************************************************************************)
\* What the two libraries make of a buffer: both open it, pdf-lib rejects
\* it, or pdf-lib parses it and pdf.js rejects it.
Quality == {"ok", "noparse", "noraster"}

NoBytes == [v |-> 0, n |-> 0, q |-> "ok"]

\* PDFDocument.load(bytes, ...) resolves
ParseOk(bytes) == bytes.q # "noparse"

\* pdfjsLib.getDocument({data}).promise resolves
RasterOk(bytes) == bytes.q = "ok"

\* the parsed handle of PDFDocument.load
Parsed(bytes) == [of |-> bytes]

\* pdfDoc.getPageCount()
getPageCount(pdfDoc) == pdfDoc.of.n

\* a fresh PDFDocumentProxy
RasterHandle(bytes) == [of |-> bytes, destroyed |-> FALSE]

\* pdfJsDoc?.destroy()
Destroy(pdfJsDoc) == [pdfJsDoc EXCEPT !.destroyed = TRUE]

\* the page records createDocumentFromBytes builds: page-${tabIdCounter}-${i}
InitialPageData(counter, pageCount) ==
  [k \in 1..pageCount |->
     [id |-> [kind |-> "page", tab |-> counter, i |-> k - 1, stamp |-> 0],
      pageIndex |-> k - 1, rotation |-> 0, deleted |-> FALSE]]

\* the page records updateDocumentBytes builds: page-${doc.id}-${i}-${Date.now()}
FreshPageData(docId, pageCount, stamp) ==
  [k \in 1..pageCount |->
     [id |-> [kind |-> "page-doc", tab |-> docId, i |-> k - 1, stamp |-> stamp],
      pageIndex |-> k - 1, rotation |-> 0, deleted |-> FALSE]]

\* JSON.parse(JSON.stringify(doc.pageData)): a field-by-field copy
DeepCopy(pageData) ==
  [k \in 1..Len(pageData) |->
     [id |-> pageData[k].id, pageIndex |-> pageData[k].pageIndex,
      rotation |-> pageData[k].rotation, deleted |-> pageData[k].deleted]]

\* doc.pageData.filter(p => !p.deleted).length
LiveCount(pageData) == Cardinality({k \in 1..Len(pageData) : ~pageData[k].deleted})

\* a DocumentSnapshot of the document as it is now
Snapshot(doc) == [pagesData |-> DeepCopy(doc.pageData), pdfBytes |-> doc.pdfBytes]

Front(s) == SubSeq(s, 1, Len(s) - 1)
Last(s) == s[Len(s)]

(***************************************************************************)
(* Synchronous parts of the registry operations, as functions of the       *)
(* Document object                                                         *)
(***************************************************************************)
\* variant: a push that keeps the redoStack
pushUndoStateKeepsRedo(doc) ==
  [doc EXCEPT !.undoStack = Append(doc.undoStack, Snapshot(doc)),
              !.isDirty = TRUE]

\* pushUndoState(doc)
pushUndoState(doc) ==
  [doc EXCEPT !.undoStack = Append(doc.undoStack, Snapshot(doc)),
              !.redoStack = <<>>,
              !.isDirty = TRUE]

\* updateDocumentBytes up to its first await
UpdateBegin(doc, newBytes) ==
  [pushUndoState(doc) EXCEPT !.pdfBytes = newBytes]

\* variant: an undo that restores the bytes but not the page metadata
UndoBeginKeepsPageData(doc) ==
  [doc EXCEPT !.redoStack = Append(doc.redoStack, Snapshot(doc)),
              !.undoStack = Front(doc.undoStack),
              !.pdfBytes = Last(doc.undoStack).pdfBytes]

\* undo() from the snapshot of the current state up to its first await
UndoBegin(doc) ==
  [doc EXCEPT !.redoStack = Append(doc.redoStack, Snapshot(doc)),
              !.undoStack = Front(doc.undoStack),
              !.pageData = Last(doc.undoStack).pagesData,
              !.pdfBytes = Last(doc.undoStack).pdfBytes]

\* variant: a redo that marks the document dirty, as pushUndoState does
RedoBeginMarksDirty(doc) ==
  [doc EXCEPT !.undoStack = Append(doc.undoStack, Snapshot(doc)),
              !.redoStack = Front(doc.redoStack),
              !.pageData = Last(doc.redoStack).pagesData,
              !.pdfBytes = Last(doc.redoStack).pdfBytes,
              !.isDirty = TRUE]

\* redo() from the snapshot of the current state up to its first await
RedoBegin(doc) ==
  [doc EXCEPT !.undoStack = Append(doc.undoStack, Snapshot(doc)),
              !.redoStack = Front(doc.redoStack),
              !.pageData = Last(doc.redoStack).pagesData,
              !.pdfBytes = Last(doc.redoStack).pdfBytes]

\* doc.pdfDoc = <the parsed handle>; doc.pdfJsDoc?.destroy();
AfterLoad(doc, bytes) ==
  [doc EXCEPT !.pdfDoc = Parsed(bytes), !.pdfJsDoc = Destroy(doc.pdfJsDoc)]

\* doc.pdfJsDoc = <the new raster handle>; (undo and redo end here)
AfterOpen(doc, bytes) ==
  [doc EXCEPT !.pdfJsDoc = RasterHandle(bytes)]

\* the tail of updateDocumentBytes: new handle, then the page-count check
UpdateEnd(doc, bytes, stamp) ==
  LET d1 == AfterOpen(doc, bytes)
      newPageCount == getPageCount(d1.pdfDoc)
  IN IF newPageCount # LiveCount(d1.pageData)
       THEN [d1 EXCEPT !.pageData = FreshPageData(d1.id, newPageCount, stamp)]
       ELSE d1

\* variant: the id is taken from the number of open tabs
NewDocumentNumberedByTabs(counter, bytes) ==
  [id |-> Len(documents) + 1,
   pdfBytes |-> bytes,
   pdfDoc |-> Parsed(bytes),
   pdfJsDoc |-> RasterHandle(bytes),
   pageData |-> InitialPageData(counter, getPageCount(Parsed(bytes))),
   undoStack |-> <<>>,
   redoStack |-> <<>>,
   isDirty |-> FALSE,
   currentPage |-> 1]

\* the Document literal of createDocumentFromBytes
NewDocument(counter, bytes) ==
  [id |-> counter + 1,
   pdfBytes |-> bytes,
   pdfDoc |-> Parsed(bytes),
   pdfJsDoc |-> RasterHandle(bytes),
   pageData |-> InitialPageData(counter, getPageCount(Parsed(bytes))),
   undoStack |-> <<>>,
   redoStack |-> <<>>,
   isDirty |-> FALSE,
   currentPage |-> 1]

\* documents.findIndex(d => d.id === docId), 0-based, -1 when absent
findIndex(docs, docId) ==
  IF \E k \in 1..Len(docs) : docs[k] = docId
    THEN (CHOOSE k \in 1..Len(docs) : docs[k] = docId /\ \A j \in 1..(k-1) : docs[j] # docId) - 1
    ELSE -1

\* documents.splice(index, 1), index 0-based
splice(docs, index) ==
  [k \in 1..(Len(docs) - 1) |-> IF k <= index THEN docs[k] ELSE docs[k + 1]]

\* variant: the chain without its "activeDocIndex >= documents.length" arm
AdjustActiveNoClamp(active, index, newLen) ==
  IF newLen = 0 THEN -1
  ELSE IF active > index THEN active - 1
  ELSE active

\* variant: the chain without its "activeDocIndex > index" arm
AdjustActiveNoShift(active, index, newLen) ==
  IF newLen = 0 THEN -1
  ELSE IF active >= newLen THEN newLen - 1
  ELSE active

\* the "Adjust active index" chain of closeDocument / forceCloseDocument,
\* evaluated after the splice
AdjustActive(active, index, newLen) ==
  IF newLen = 0 THEN -1
  ELSE IF active >= newLen THEN newLen - 1
  ELSE IF active > index THEN active - 1
  ELSE active

\* getActiveDocument(): the id of the active document, 0 for null
getActiveDocument == IF activeDocIndex >= 0 THEN documents[activeDocIndex + 1] ELSE 0


(***************************************************************************)
(* Suspended calls and the observations kept for the properties            *)
(***************************************************************************)
NoDoc == [id |-> 0]

Idle == [op |-> "idle", pc |-> "none", doc |-> 0, bytes |-> NoBytes,
         pre |-> NoDoc, solo |-> TRUE]

Slots == 1..MaxTasks

\* the slot a new call is given: the first free one
FreeSlot(t) == tasks[t].op = "idle" /\ \A u \in 1..(t-1) : tasks[u].op # "idle"

\* some update / undo / redo on document d is suspended
Busy(d) == \E t \in Slots : tasks[t].op \in {"update", "undo", "redo"} /\ tasks[t].doc = d

\* a call starting on d ends the solitude of the calls already running on d
Crowd(d) ==
  [t \in Slots |-> IF tasks[t].doc = d /\ tasks[t].op # "idle"
                     THEN [tasks[t] EXCEPT !.solo = FALSE, !.pre = NoDoc] ELSE tasks[t]]

\* the bytes and page metadata the round-trip property compares
Core(doc) == [pdfBytes |-> doc.pdfBytes, pageData |-> doc.pageData]

\* ... together with both stacks
Full(doc) == [pdfBytes |-> doc.pdfBytes, pageData |-> doc.pageData,
              undoStack |-> doc.undoStack, redoStack |-> doc.redoStack]

NoFull == [pdfBytes |-> NoBytes]

\* ref[d]: while every call on d ran alone and succeeded (ok), tl is the
\* list of states the edits produced and cur the position undo/redo moved
\* to; pair/saved follow an undo that is directly followed by a redo.
NewRef(doc) == [ok |-> TRUE, tl |-> <<Core(doc)>>, cur |-> 1,
                pair |-> "none", saved |-> NoFull]

Spoil(r) == [r EXCEPT !.ok = FALSE, !.tl = <<>>, !.cur = 0]

RefStart(d, op) ==
  LET r == ref[d]
      r1 == IF Busy(d) THEN Spoil(r) ELSE r
  IN CASE op = "undo" /\ ~Busy(d) ->
            [r1 EXCEPT !.pair = "undo", !.saved = Full(heap[d])]
       [] op = "redo" /\ ~Busy(d) /\ r.pair = "undo" ->
            [r1 EXCEPT !.pair = "undoredo"]
       [] OTHER -> [r1 EXCEPT !.pair = "none", !.saved = NoFull]

RefDone(d, op, newDoc) ==
  LET r == ref[d]
  IN IF ~r.ok THEN r
     ELSE CASE op = "update" ->
                 [r EXCEPT !.tl = Append(SubSeq(r.tl, 1, r.cur), Core(newDoc)),
                           !.cur = r.cur + 1]
            [] op = "undo" -> [r EXCEPT !.cur = r.cur - 1]
            [] op = "redo" -> [r EXCEPT !.cur = r.cur + 1]


(***************************************************************************)
(* Init                                                                    *)
(***************************************************************************)
DocInit ==
  /\ documents = <<>>
  /\ heap = <<>>
  /\ activeDocIndex = -1
  /\ tabIdCounter = 0
  /\ tasks = [t \in Slots |-> Idle]
  /\ clock = 0
  /\ ref = <<>>

(***************************************************************************)
(* createDocumentFromBytes                                                 *)
(***************************************************************************)
\* buffers still to be numbered when the creates in flight settle
Pending == Cardinality({t \in Slots : tasks[t].op = "create"})

\* the call, up to its awaits.  Nothing the rest of the program can see
\* changes between "await PDFDocument.load(bytes)" and "await
\* pdfjsLib.getDocument(...).promise", so the two awaits are one suspension;
\* the buffer gets its number when the Document is built.
CreateCall(t, n, q) ==
  /\ FreeSlot(t)
  /\ clock + Pending < MaxClock
  /\ tasks' = [tasks EXCEPT ![t] = [op |-> "create", pc |-> "open", doc |-> 0,
                                    bytes |-> [v |-> 0, n |-> n, q |-> q],
                                    pre |-> NoDoc, solo |-> TRUE]]
  /\ UNCHANGED <<documents, heap, activeDocIndex, tabIdCounter, clock, ref>>

CreateStart(t, n, q) ==
  /\ CreateCall(t, n, q)
  /\ UNCHANGED <<renderVars, ocrVars, toolVars, exportVars, selVars, openVars, pdfVars, zoomVars, runVars, splitVars, viewVars>>

\* variant: a created document does not become the active one
CreateReturnKeepsActive(t) ==
  /\ tasks[t].op = "create" /\ tasks[t].pc = "open"
  /\ RasterOk(tasks[t].bytes)
  /\ LET doc == NewDocument(tabIdCounter, [tasks[t].bytes EXCEPT !.v = clock + 1])
     IN /\ heap' = Append(heap, doc)
        /\ ref' = Append(ref, NewRef(doc))
        /\ tabIdCounter' = tabIdCounter + 1
        /\ documents' = Append(documents, doc.id)
        /\ activeDocIndex' = IF activeDocIndex = -1 THEN 0 ELSE activeDocIndex
  /\ tasks' = [tasks EXCEPT ![t] = Idle]
  /\ clock' = clock + 1

\* from the resolution of getDocument to the return: what the call does to
\* the registry
CreateReturn(t) ==
  /\ tasks[t].op = "create" /\ tasks[t].pc = "open"
  /\ RasterOk(tasks[t].bytes)
  /\ LET doc == NewDocument(tabIdCounter, [tasks[t].bytes EXCEPT !.v = clock + 1])
     IN /\ heap' = Append(heap, doc)
        /\ ref' = Append(ref, NewRef(doc))
        /\ tabIdCounter' = tabIdCounter + 1
        /\ documents' = Append(documents, doc.id)
        /\ activeDocIndex' = Len(documents)
  /\ tasks' = [tasks EXCEPT ![t] = Idle]
  /\ clock' = clock + 1

CreateEnd(t) ==
  /\ CreateReturn(t)
  /\ UNCHANGED <<renderVars, ocrVars, toolVars, exportVars, selVars, openVars, pdfVars, zoomVars, runVars, splitVars, viewVars>>

(***************************************************************************)
(* updateDocumentBytes, undo, redo                                         *)
(***************************************************************************)
\* updateDocumentBytes(doc, newBytes) up to "await PDFDocument.load(newBytes)":
\* what the call does to the registry
UpdateCall(t, d, n, q) ==
  /\ FreeSlot(t)
  /\ clock + Pending < MaxClock
  /\ findIndex(documents, d) # -1
  /\ LET newBytes == [v |-> clock + 1, n |-> n, q |-> q]
     IN /\ heap' = [heap EXCEPT ![d] = UpdateBegin(heap[d], newBytes)]
        /\ tasks' = [Crowd(d) EXCEPT ![t] = [op |-> "update", pc |-> "load", doc |-> d,
                                             bytes |-> newBytes, pre |-> heap[d],
                                             solo |-> ~Busy(d)]]
  /\ clock' = clock + 1
  /\ ref' = [ref EXCEPT ![d] = RefStart(d, "update")]
  /\ UNCHANGED <<documents, activeDocIndex, tabIdCounter>>

\* a caller hands a buffer to updateDocumentBytes
UpdateStart(t, d, n, q) ==
  /\ UpdateCall(t, d, n, q)
  /\ UNCHANGED <<renderVars, ocrVars, toolVars, exportVars, selVars, openVars, pdfVars, zoomVars, runVars, splitVars, viewVars>>

\* undo() up to "await PDFDocument.load(snapshot.pdfBytes)"
UndoStart(t) ==
  /\ FreeSlot(t)
  /\ getActiveDocument # 0
  /\ LET d == getActiveDocument
     IN /\ heap[d].undoStack # <<>>
        /\ heap' = [heap EXCEPT ![d] = UndoBegin(heap[d])]
        /\ tasks' = [Crowd(d) EXCEPT ![t] = [op |-> "undo", pc |-> "load", doc |-> d,
                                             bytes |-> Last(heap[d].undoStack).pdfBytes,
                                             pre |-> IF Busy(d) THEN NoDoc ELSE heap[d], solo |-> ~Busy(d)]]
        /\ ref' = [ref EXCEPT ![d] = RefStart(d, "undo")]
  /\ UNCHANGED <<documents, activeDocIndex, tabIdCounter, clock>>
  /\ UNCHANGED <<renderVars, ocrVars, toolVars, exportVars, selVars, openVars, pdfVars, zoomVars, runVars, splitVars, viewVars>>

\* redo() up to "await PDFDocument.load(snapshot.pdfBytes)"
RedoStart(t) ==
  /\ FreeSlot(t)
  /\ getActiveDocument # 0
  /\ LET d == getActiveDocument
     IN /\ heap[d].redoStack # <<>>
        /\ heap' = [heap EXCEPT ![d] = RedoBegin(heap[d])]
        /\ tasks' = [Crowd(d) EXCEPT ![t] = [op |-> "redo", pc |-> "load", doc |-> d,
                                             bytes |-> Last(heap[d].redoStack).pdfBytes,
                                             pre |-> IF Busy(d) THEN NoDoc ELSE heap[d], solo |-> ~Busy(d)]]
        /\ ref' = [ref EXCEPT ![d] = RefStart(d, "redo")]
  /\ UNCHANGED <<documents, activeDocIndex, tabIdCounter, clock>>
  /\ UNCHANGED <<renderVars, ocrVars, toolVars, exportVars, selVars, openVars, pdfVars, zoomVars, runVars, splitVars, viewVars>>

\* "await PDFDocument.load(...)" resolves: what the next stretch does to the
\* registry
LoadReturn(t) ==
  /\ tasks[t].pc = "load"
  /\ ParseOk(tasks[t].bytes)
  /\ tasks' = [tasks EXCEPT ![t].pc = "open"]
  /\ heap' = [heap EXCEPT ![tasks[t].doc] = AfterLoad(heap[tasks[t].doc], tasks[t].bytes)]
  /\ UNCHANGED <<documents, activeDocIndex, tabIdCounter, clock, ref>>

\* variant: the stretch after the await reads getActiveDocument() again
LoadResolvesOnActive(t) ==
  /\ tasks[t].pc = "load"
  /\ ParseOk(tasks[t].bytes)
  /\ tasks' = [tasks EXCEPT ![t].pc = "open"]
  /\ heap' = [heap EXCEPT ![getActiveDocument] = AfterLoad(heap[getActiveDocument], tasks[t].bytes)]
  /\ UNCHANGED <<documents, activeDocIndex, tabIdCounter, clock, ref>>
  /\ UNCHANGED <<renderVars, ocrVars, toolVars, exportVars, selVars, openVars, pdfVars, zoomVars, runVars, splitVars, viewVars>>

\* "await PDFDocument.load(...)" resolves: the next synchronous stretch
LoadResolves(t) ==
  /\ LoadReturn(t)
  /\ UNCHANGED <<renderVars, ocrVars, toolVars, exportVars, selVars, openVars, pdfVars, zoomVars, runVars, splitVars, viewVars>>

\* the awaited promise rejects: the async function throws to its caller
\* variant: a rejected call also resets the active document
RejectsAndDeactivates(t) ==
  /\ tasks' = [tasks EXCEPT ![t] = Idle]
  /\ ref' = IF tasks[t].doc = 0 THEN ref
            ELSE [ref EXCEPT ![tasks[t].doc] = Spoil(ref[tasks[t].doc])]
  /\ activeDocIndex' = -1
  /\ UNCHANGED <<documents, heap, tabIdCounter, clock>>

Rejects(t) ==
  /\ tasks' = [tasks EXCEPT ![t] = Idle]
  /\ ref' = IF tasks[t].doc = 0 THEN ref
            ELSE [ref EXCEPT ![tasks[t].doc] = Spoil(ref[tasks[t].doc])]
  /\ UNCHANGED <<documents, heap, activeDocIndex, tabIdCounter, clock>>

Throws(t) ==
  /\ Rejects(t)
  /\ UNCHANGED <<renderVars, ocrVars, toolVars, exportVars, selVars, openVars, pdfVars, zoomVars, runVars, splitVars, viewVars>>

\* "await PDFDocument.load(...)" rejects
LoadFails(t) ==
  /\ tasks[t].pc = "load"
  /\ ~ParseOk(tasks[t].bytes)
  /\ Throws(t)

\* "await pdfjsLib.getDocument(...).promise" rejects
OpenFails(t) ==
  /\ tasks[t].pc = "open"
  /\ ~RasterOk(tasks[t].bytes)
  /\ Throws(t)

\* a suspended update / undo / redo settles normally
SettlesCall(t, newDoc) ==
  /\ heap' = [heap EXCEPT ![tasks[t].doc] = newDoc]
  /\ tasks' = [tasks EXCEPT ![t] = Idle]
  /\ ref' = [ref EXCEPT ![tasks[t].doc] = RefDone(tasks[t].doc, tasks[t].op, newDoc)]
  /\ UNCHANGED <<documents, activeDocIndex, tabIdCounter, clock>>

Settles(t, newDoc) ==
  /\ SettlesCall(t, newDoc)
  /\ UNCHANGED <<renderVars, ocrVars, toolVars, exportVars, selVars, openVars, pdfVars, zoomVars, runVars, splitVars, viewVars>>

\* updateDocumentBytes from the resolution of getDocument to the return
UpdateEndStep(t) ==
  /\ tasks[t].op = "update" /\ tasks[t].pc = "open"
  /\ RasterOk(tasks[t].bytes)
  /\ Settles(t, UpdateEnd(heap[tasks[t].doc], tasks[t].bytes, clock))

\* the same stretch without the frame of the other parts
UpdateReturn(t) ==
  /\ tasks[t].op = "update" /\ tasks[t].pc = "open"
  /\ RasterOk(tasks[t].bytes)
  /\ SettlesCall(t, UpdateEnd(heap[tasks[t].doc], tasks[t].bytes, clock))

\* undo / redo from the resolution of getDocument to "return true"
UndoRedoEnd(t) ==
  /\ tasks[t].op \in {"undo", "redo"} /\ tasks[t].pc = "open"
  /\ RasterOk(tasks[t].bytes)
  /\ Settles(t, AfterOpen(heap[tasks[t].doc], tasks[t].bytes))

(***************************************************************************)
(* closeDocument, forceCloseDocument, switchToDocument                     *)
(***************************************************************************)
\* what both close functions do once they decided to remove index
Remove(index) ==
  /\ heap' = [heap EXCEPT ![documents[index + 1]].pdfJsDoc = Destroy(@)]
  /\ documents' = splice(documents, index)
  /\ activeDocIndex' = AdjustActive(activeDocIndex, index, Len(documents) - 1)

\* variant: a close that does not look at isDirty
CloseAllowedIgnoresDirty(docId) == findIndex(documents, docId) # -1

\* whether closeDocument(docId) goes on to remove the document
CloseAllowed(docId) ==
  /\ findIndex(documents, docId) # -1
  /\ ~heap[docId].isDirty

closeDocument(docId) ==
  /\ IF CloseAllowed(docId)
       THEN Remove(findIndex(documents, docId))
       ELSE UNCHANGED <<documents, heap, activeDocIndex>>
  /\ UNCHANGED <<tabIdCounter, tasks, clock, ref>>
  /\ UNCHANGED <<renderVars, ocrVars, toolVars, exportVars, selVars, openVars, pdfVars, zoomVars, runVars, splitVars, viewVars>>

forceCloseDocument(docId) ==
  /\ IF findIndex(documents, docId) # -1
       THEN Remove(findIndex(documents, docId))
       ELSE UNCHANGED <<documents, heap, activeDocIndex>>
  /\ UNCHANGED <<tabIdCounter, tasks, clock, ref>>
  /\ UNCHANGED <<renderVars, ocrVars, toolVars, exportVars, selVars, openVars, pdfVars, zoomVars, runVars, splitVars, viewVars>>

switchToDocument(docId) ==
  /\ IF findIndex(documents, docId) # -1 /\ findIndex(documents, docId) # activeDocIndex
       THEN activeDocIndex' = findIndex(documents, docId)
       ELSE UNCHANGED activeDocIndex
  /\ UNCHANGED <<documents, heap, tabIdCounter, tasks, clock, ref>>
  /\ UNCHANGED <<renderVars, ocrVars, toolVars, exportVars, selVars, openVars, pdfVars, zoomVars, runVars, splitVars, viewVars>>

\* the document ids a caller may pass: every id handed out so far and one
\* that was never handed out
DocIds == 1..(tabIdCounter + 1)

\* the buffers a caller may hand over: a well-formed one of any page count,
\* or a one-page buffer one of the libraries rejects
Buffers == {b \in (1..MaxPages) \X Quality : b[2] = "ok" \/ b[1] = 1}

DocNext ==
  \/ \E t \in Slots, b \in Buffers : CreateStart(t, b[1], b[2])
  \/ \E t \in Slots : CreateEnd(t)
  \/ \E t \in Slots, d \in 1..tabIdCounter, b \in Buffers : UpdateStart(t, d, b[1], b[2])
  \/ \E t \in Slots : UndoStart(t)
  \/ \E t \in Slots : RedoStart(t)
  \/ \E t \in Slots : LoadResolves(t)
  \/ \E t \in Slots : LoadFails(t)
  \/ \E t \in Slots : OpenFails(t)
  \/ \E t \in Slots : UpdateEndStep(t)
  \/ \E t \in Slots : UndoRedoEnd(t)
  \/ \E id \in DocIds : closeDocument(id)
  \/ \E id \in DocIds : forceCloseDocument(id)
  \/ \E id \in DocIds : switchToDocument(id)

(***************************************************************************)
(* viewer.ts: renderCurrentPage on the main canvas                          *)
(***************************************************************************)
\* number of renderCurrentPage calls (refreshViewer, goToPage, zoom) made
MaxRenders == 3

\* One renderCurrentPage call.  pc is where the call stands: awaiting
\* doc.pdfJsDoc.getPage ("getPage"), awaiting renderTask.promise ("render")
\* or returned ("done").  task is the state of the pdf.js RenderTask the call
\* created: "none", "running", "cancelSent" (cancel() was called on it, its
\* promise has not been observed yet) or "settled".  out is how the call
\* ended: "drawn", "cancelled" (the rejection was absorbed) or "logged" (an
\* error reached the outer catch and console.error).
NewRequest == [pc |-> "getPage", task |-> "none", out |-> "none"]

RenderInit ==
  /\ reqs = <<>>
  /\ currentRenderTask = 0
  /\ canvas = 0

\* currentRenderTask.cancel() when a task is tracked: a running task stops
\* drawing and its promise rejects with a cancellation; cancel() on a task
\* that is no longer running does nothing
CancelTracked(rs, tracked) ==
  IF tracked # 0 /\ rs[tracked].task = "running"
    THEN [rs EXCEPT ![tracked].task = "cancelSent"]
    ELSE rs

\* a caller enters renderCurrentPage: up to "await doc.pdfJsDoc.getPage(...)"
RequestRender ==
  /\ Len(reqs) < MaxRenders
  /\ reqs' = Append(reqs, NewRequest)
  /\ UNCHANGED <<currentRenderTask, canvas>>
  /\ UNCHANGED <<docVars, ocrVars, toolVars, exportVars, selVars, openVars, pdfVars, zoomVars, runVars, splitVars, viewVars>>

\* getPage resolved: size the canvas (which blanks it), cancel the tracked
\* task, start this call's task and track it, up to "await renderTask.promise"
PageResolves(r) ==
  /\ reqs[r].pc = "getPage"
  /\ canvas' = 0
  /\ reqs' = [CancelTracked(reqs, currentRenderTask) EXCEPT ![r].pc = "render",
                                                            ![r].task = "running"]
  /\ currentRenderTask' = r
  /\ UNCHANGED <<docVars, ocrVars, toolVars, exportVars, selVars, openVars, pdfVars, zoomVars, runVars, splitVars, viewVars>>

\* getPage rejected: the outer catch logs it
PageFails(r) ==
  /\ reqs[r].pc = "getPage"
  /\ reqs' = [reqs EXCEPT ![r].pc = "done", ![r].out = "logged"]
  /\ UNCHANGED <<currentRenderTask, canvas>>
  /\ UNCHANGED <<docVars, ocrVars, toolVars, exportVars, selVars, openVars, pdfVars, zoomVars, runVars, splitVars, viewVars>>

\* the task drew the page; the promise resolves and the finally block runs
RenderCompletes(r) ==
  /\ reqs[r].task = "running"
  /\ canvas' = r
  /\ reqs' = [reqs EXCEPT ![r].pc = "done", ![r].task = "settled", ![r].out = "drawn"]
  /\ currentRenderTask' = 0
  /\ UNCHANGED <<docVars, ocrVars, toolVars, exportVars, selVars, openVars, pdfVars, zoomVars, runVars, splitVars, viewVars>>

\* the promise of a cancelled task rejects: the /cancel/i test absorbs it and
\* the finally block runs
CancelObserved(r) ==
  /\ reqs[r].task = "cancelSent"
  /\ reqs[r].pc = "render"
  /\ reqs' = [reqs EXCEPT ![r].pc = "done", ![r].task = "settled", ![r].out = "cancelled"]
  /\ currentRenderTask' = 0
  /\ UNCHANGED canvas
  /\ UNCHANGED <<docVars, ocrVars, toolVars, exportVars, selVars, openVars, pdfVars, zoomVars, runVars, splitVars, viewVars>>

\* the task fails for another reason: rethrown, the finally block runs, the
\* outer catch logs it
RenderFails(r) ==
  /\ reqs[r].task = "running"
  /\ reqs' = [reqs EXCEPT ![r].pc = "done", ![r].task = "settled", ![r].out = "logged"]
  /\ currentRenderTask' = 0
  /\ UNCHANGED canvas
  /\ UNCHANGED <<docVars, ocrVars, toolVars, exportVars, selVars, openVars, pdfVars, zoomVars, runVars, splitVars, viewVars>>

\* clearViewer(): blank the canvas and cancel the tracked task
clearViewer ==
  /\ canvas' = 0
  /\ reqs' = CancelTracked(reqs, currentRenderTask)
  /\ UNCHANGED currentRenderTask
  /\ UNCHANGED <<docVars, ocrVars, toolVars, exportVars, selVars, openVars, pdfVars, zoomVars, runVars, splitVars, viewVars>>

RenderNext ==
  \/ RequestRender
  \/ \E r \in 1..Len(reqs) : PageResolves(r)
  \/ \E r \in 1..Len(reqs) : PageFails(r)
  \/ \E r \in 1..Len(reqs) : RenderCompletes(r)
  \/ \E r \in 1..Len(reqs) : CancelObserved(r)
  \/ \E r \in 1..Len(reqs) : RenderFails(r)
  \/ clearViewer

(***************************************************************************)
(* toolOperations.ts: ocr(), with workers/ocrWorker.js and the Cancel      *)
(* button of ui/textModal.ts                                               *)
(***************************************************************************)
\* largest page number that can be selected for OCR
MaxOcrPages == 3
\* 'progress' messages the worker forwards for one recognition
MaxProgress == 1

NoId == <<"none", 0>>

\* `ocr-${Date.now()}-${Math.random()...}`: a fresh id for each submission
FreshId(k) == <<"ocr", k>>

\* what recognition may return for a page: no text, or some text
Texts == {"", "text"}

ErrorText == "[Error during OCR]"

Sentinel == <<[page |-> 0, text |-> "[No text recognized]"]>>

\* fullText += `--- Page ${pageNum} ---\n` + text + '\n\n'
Section(pageNum, text) == [page |-> pageNum, text |-> text]

\* how a page of the loop can end: recognition returned text, something in
\* the loop body threw, or the 2D context was missing and the page was skipped
Recognized(text) == [how |-> "recognized", text |-> text]
Failed == [how |-> "failed", text |-> ""]
Skipped == [how |-> "skipped", text |-> ""]

Ascending(seq) == \A i \in 1..(Len(seq) - 1) : seq[i] < seq[i + 1]

\* the pages of S in the order selectPage keeps them (sorted)
Sorted(S) ==
  CHOOSE seq \in [1..Cardinality(S) -> S] :
    Ascending(seq) /\ {seq[i] : i \in 1..Cardinality(S)} = S

\* const targets = selected.length ? selected.map(i => i + 1) : [doc.currentPage]
\* over the selections getSelectedPages() can return
TargetLists == {Sorted(S) : S \in (SUBSET (1..MaxOcrPages)) \ {{}}}

OcrInit ==
  /\ ocrPc = "idle"
  /\ targets = <<>>
  /\ idx = 0
  /\ worker = "none"
  /\ cancelled = FALSE
  /\ listening = FALSE
  /\ modalOpen = FALSE
  /\ fullText = <<>>
  /\ published = <<>>
  /\ pendingId = NoId
  /\ inbox = <<>>
  /\ outbox = <<>>
  /\ jobs = {}
  /\ outcomes = <<>>
  /\ ocrDoc = 0
  /\ progress = 0

\* ocr() from the accepted options modal to the first await of the loop
OcrStart(tg, workerCreated) ==
  /\ ocrPc = "idle"
  /\ targets' = tg
  /\ modalOpen' = TRUE
  /\ worker' = IF workerCreated THEN "alive" ELSE "none"
  /\ fullText' = <<>>
  /\ cancelled' = FALSE
  /\ listening' = TRUE
  /\ idx' = 1
  /\ ocrPc' = "getPage"
  /\ UNCHANGED <<published, pendingId, inbox, outbox, jobs>>
  /\ UNCHANGED <<docVars, renderVars, toolVars, exportVars, selVars, openVars, pdfVars, zoomVars, runVars, splitVars, viewVars>>
  /\ ocrDoc' = getActiveDocument
  /\ progress' = 0
  /\ UNCHANGED outcomes

\* worker.postMessage(msg): a terminated worker drops it
Post(box, w, msg) == IF w = "alive" THEN Append(box, msg) ELSE box

\* the Cancel button: dispatch 'bentopdf-ocr-cancel', then cleanup();
\* cancelListener runs when it is registered
CancelClicked ==
  /\ modalOpen
  /\ modalOpen' = FALSE
  /\ IF listening
       THEN /\ cancelled' = TRUE
            /\ inbox' = IF worker # "none"
                          THEN Post(inbox, worker, [id |-> <<"cancel", 0>>, action |-> "terminate"])
                          ELSE inbox
       ELSE UNCHANGED <<cancelled, inbox>>
  /\ UNCHANGED <<ocrPc, targets, idx, worker, listening, fullText, published,
                 pendingId, outbox, jobs>>
  /\ UNCHANGED <<docVars, renderVars, toolVars, exportVars, selVars, openVars, pdfVars, zoomVars, runVars, splitVars, viewVars>>
  /\ UNCHANGED <<outcomes, ocrDoc, progress>>

\* the Close button of the text modal: cleanup() only, the session goes on
CloseClicked ==
  /\ modalOpen
  /\ modalOpen' = FALSE
  /\ UNCHANGED <<ocrPc, targets, idx, worker, cancelled, listening, fullText, published,
                 pendingId, inbox, outbox, jobs, outcomes, ocrDoc, progress>>
  /\ UNCHANGED <<docVars, renderVars, toolVars, exportVars, selVars, openVars, pdfVars, zoomVars, runVars, splitVars, viewVars>>

\* the finally block and the two statements after it; ob is the outbox as
\* the running handler leaves it, how is the way the last page ended
FinishWith(text, ob, how) ==
  /\ listening' = FALSE
  /\ IF worker = "alive" /\ ~cancelled
       THEN /\ worker' = "terminated"
            /\ inbox' = <<>>
            /\ outbox' = <<>>
            /\ jobs' = {}
       ELSE /\ outbox' = ob
            /\ UNCHANGED <<worker, inbox, jobs>>
  /\ fullText' = (IF text = <<>> THEN Sentinel ELSE text)
  /\ published' = (IF text = <<>> THEN Sentinel ELSE text)
  /\ ocrPc' = "done"
  /\ pendingId' = NoId
  /\ outcomes' = Append(outcomes, how)
  /\ progress' = 100
  /\ UNCHANGED ocrDoc
  /\ UNCHANGED <<targets, idx, cancelled, modalOpen>>
  /\ UNCHANGED <<docVars, renderVars, toolVars, exportVars, selVars, openVars, pdfVars, zoomVars, runVars, splitVars, viewVars>>

\* variant: a loop without the "if (cancelled) break"
LoopContinuesIgnoresFlag(k, tg, flag) == k < Len(tg)

\* whether the for loop goes on to another page: targets are left and the
\* "if (cancelled) break" at the top of the loop body does not fire
LoopContinues(k, tg, flag) == k < Len(tg) /\ ~flag

\* a page is finished with its section appended: publish the text, then
\* either begin the next page or leave the loop
PageDone(text, ob, how) ==
  IF LoopContinues(idx, targets, cancelled)
    THEN /\ fullText' = text
         /\ published' = text
         /\ idx' = idx + 1
         /\ ocrPc' = "getPage"
         /\ pendingId' = NoId
         /\ outbox' = ob
         /\ outcomes' = Append(outcomes, how)
         /\ UNCHANGED <<ocrDoc, progress>>
         /\ UNCHANGED <<targets, worker, cancelled, listening, modalOpen, inbox, jobs>>
         /\ UNCHANGED <<docVars, renderVars, toolVars, exportVars, selVars, openVars, pdfVars, zoomVars, runVars, splitVars, viewVars>>
    ELSE FinishWith(text, ob, how)

\* variant: a page error that ends the session after its placeholder
PageErrorAborts(ob) ==
  FinishWith(Append(fullText, Section(targets[idx], ErrorText)), ob, Failed)

\* the catch of the loop body: the placeholder section
PageError(ob) ==
  PageDone(Append(fullText, Section(targets[idx], ErrorText)), ob, Failed)

\* "await doc.pdfJsDoc.getPage(pageNum)" resolves
OcrPageResolves ==
  /\ ocrPc = "getPage"
  /\ ocrPc' = "render"
  /\ UNCHANGED <<targets, idx, worker, cancelled, listening, modalOpen, fullText,
                 published, pendingId, inbox, outbox, jobs>>
  /\ UNCHANGED <<docVars, renderVars, toolVars, exportVars, selVars, openVars, pdfVars, zoomVars, runVars, splitVars, viewVars>>
  /\ UNCHANGED <<outcomes, ocrDoc, progress>>

\* ... resolves but off.getContext('2d') is null: "continue", the page adds
\* nothing and the loop goes to its next iteration
OcrNoContext ==
  /\ ocrPc = "getPage"
  /\ IF LoopContinues(idx, targets, cancelled)
       THEN /\ idx' = idx + 1
            /\ outcomes' = Append(outcomes, Skipped)
            /\ UNCHANGED <<ocrDoc, progress>>
            /\ UNCHANGED <<ocrPc, targets, worker, cancelled, listening, modalOpen,
                           fullText, published, pendingId, inbox, outbox, jobs>>
            /\ UNCHANGED <<docVars, renderVars, toolVars, exportVars, selVars, openVars, pdfVars, zoomVars, runVars, splitVars, viewVars>>
       ELSE FinishWith(fullText, outbox, Skipped)

\* ... or rejects (a page number the document does not have)
OcrPageFails ==
  /\ ocrPc = "getPage"
  /\ PageError(outbox)

\* "await page.render(...).promise" resolves: submit the image to the worker,
\* or start Tesseract on the main thread
OcrRasterResolves ==
  /\ ocrPc = "render"
  /\ IF worker # "none"
       THEN /\ pendingId' = FreshId(idx)
            /\ inbox' = Post(inbox, worker,
                             [id |-> FreshId(idx), action |-> "recognize"])
            /\ ocrPc' = "recognize"
       ELSE /\ ocrPc' = "fallback"
            /\ UNCHANGED <<pendingId, inbox>>
  /\ UNCHANGED <<targets, idx, worker, cancelled, listening, modalOpen, fullText,
                 published, outbox, jobs>>
  /\ UNCHANGED <<docVars, renderVars, toolVars, exportVars, selVars, openVars, pdfVars, zoomVars, runVars, splitVars, viewVars>>
  /\ UNCHANGED <<outcomes, ocrDoc, progress>>

\* ... or rejects
OcrRasterFails ==
  /\ ocrPc = "render"
  /\ PageError(outbox)

\* variant: the text recognized on the main thread is not added
FallbackResolvesDropsText(text) ==
  /\ ocrPc = "fallback"
  /\ PageDone(fullText, outbox, Recognized(text))

\* Tesseract.recognize on the main thread resolves with text
FallbackResolves(text) ==
  /\ ocrPc = "fallback"
  /\ PageDone(Append(fullText, Section(targets[idx], text)), outbox, Recognized(text))

\* ... or rejects
FallbackFails ==
  /\ ocrPc = "fallback"
  /\ PageError(outbox)

\* Math.round((p || 0) * 100) for the p-th of MaxProgress updates
Percent(p) == (100 * p) \div MaxProgress

\* variant: a handler without the test of the id
forAnyRequest(msg, id) == TRUE

\* the test of onMessage: "if (!ev.data || ev.data.id !== id) return" lets
\* through the messages that carry the id of the request
forThisRequest(msg, id) == msg.id = id

\* onMessage(ev) for the message msg, ob being the messages still to be
\* dispatched: the handler is attached while the request is pending; a
\* 'progress' updates the bar, a 'result' or an 'error' ends the page, and
\* anything else is dropped
onMessage(msg, ob) ==
  IF ocrPc = "recognize" /\ forThisRequest(msg, pendingId)
       /\ msg.type \in {"progress", "result", "error"}
    THEN IF msg.type = "result"
           THEN PageDone(Append(fullText, Section(targets[idx], msg.text)), ob,
                         Recognized(msg.text))
         ELSE IF msg.type = "error"
           THEN PageError(ob)
         ELSE /\ progress' = Percent(msg.progress)
              /\ outbox' = ob
              /\ UNCHANGED <<ocrPc, targets, idx, worker, cancelled, listening, modalOpen,
                             fullText, published, pendingId, inbox, jobs, outcomes, ocrDoc>>
              /\ UNCHANGED <<docVars, renderVars, toolVars, exportVars, selVars, openVars, pdfVars, zoomVars, runVars, splitVars, viewVars>>
    ELSE /\ outbox' = ob
         /\ UNCHANGED <<ocrPc, targets, idx, worker, cancelled, listening, modalOpen,
                        fullText, published, pendingId, inbox, jobs>>
         /\ UNCHANGED <<docVars, renderVars, toolVars, exportVars, selVars, openVars, pdfVars, zoomVars, runVars, splitVars, viewVars>>
         /\ UNCHANGED <<outcomes, ocrDoc, progress>>

\* the worker's message reaches the main thread
Dispatch ==
  /\ outbox # <<>>
  /\ onMessage(Head(outbox), Tail(outbox))

\* the logger of Tesseract.recognize on the main thread reports progress
FallbackProgress(p) ==
  /\ ocrPc = "fallback"
  /\ progress' = Percent(p)
  /\ UNCHANGED <<ocrPc, targets, idx, worker, cancelled, listening, modalOpen,
                 fullText, published, pendingId, inbox, outbox, jobs, outcomes, ocrDoc>>
  /\ UNCHANGED <<docVars, renderVars, toolVars, exportVars, selVars, openVars, pdfVars, zoomVars, runVars, splitVars, viewVars>>

\* variant: 'terminate' also abandons the recognitions in progress
WorkerReceivesAndStops ==
  /\ worker = "alive"
  /\ inbox # <<>>
  /\ inbox' = Tail(inbox)
  /\ IF Head(inbox).action = "recognize"
       THEN /\ jobs' = jobs \cup {[id |-> Head(inbox).id, progress |-> 0]}
            /\ UNCHANGED outbox
       ELSE /\ outbox' = Append(outbox, [id |-> Head(inbox).id, type |-> "terminated", text |-> ""])
            /\ jobs' = {}
  /\ UNCHANGED <<ocrPc, targets, idx, worker, cancelled, listening, modalOpen,
                 fullText, published, pendingId>>
  /\ UNCHANGED <<docVars, renderVars, toolVars, exportVars, selVars, openVars, pdfVars, zoomVars, runVars, splitVars, viewVars>>
  /\ UNCHANGED <<outcomes, ocrDoc, progress>>

\* ocrWorker.js onmessage: 'recognize' starts Tesseract.recognize,
\* 'terminate' is answered with 'terminated'
WorkerReceives ==
  /\ worker = "alive"
  /\ inbox # <<>>
  /\ inbox' = Tail(inbox)
  /\ IF Head(inbox).action = "recognize"
       THEN /\ jobs' = jobs \cup {[id |-> Head(inbox).id, progress |-> 0]}
            /\ UNCHANGED outbox
       ELSE /\ outbox' = Append(outbox, [id |-> Head(inbox).id, type |-> "terminated", text |-> ""])
            /\ UNCHANGED jobs
  /\ UNCHANGED <<ocrPc, targets, idx, worker, cancelled, listening, modalOpen,
                 fullText, published, pendingId>>
  /\ UNCHANGED <<docVars, renderVars, toolVars, exportVars, selVars, openVars, pdfVars, zoomVars, runVars, splitVars, viewVars>>
  /\ UNCHANGED <<outcomes, ocrDoc, progress>>

\* ocrWorker.js logger: forward a progress update
WorkerProgress(j) ==
  /\ worker = "alive"
  /\ j \in jobs
  /\ j.progress < MaxProgress
  /\ jobs' = (jobs \ {j}) \cup {[j EXCEPT !.progress = j.progress + 1]}
  /\ outbox' = Append(outbox, [id |-> j.id, type |-> "progress", text |-> "",
                                   progress |-> j.progress + 1])
  /\ UNCHANGED <<ocrPc, targets, idx, worker, cancelled, listening, modalOpen,
                 fullText, published, pendingId, inbox>>
  /\ UNCHANGED <<docVars, renderVars, toolVars, exportVars, selVars, openVars, pdfVars, zoomVars, runVars, splitVars, viewVars>>
  /\ UNCHANGED <<outcomes, ocrDoc, progress>>

\* ocrWorker.js: Tesseract.recognize resolved, post the result
WorkerResult(j, text) ==
  /\ worker = "alive"
  /\ j \in jobs
  /\ jobs' = jobs \ {j}
  /\ outbox' = Append(outbox, [id |-> j.id, type |-> "result", text |-> text])
  /\ UNCHANGED <<ocrPc, targets, idx, worker, cancelled, listening, modalOpen,
                 fullText, published, pendingId, inbox>>
  /\ UNCHANGED <<docVars, renderVars, toolVars, exportVars, selVars, openVars, pdfVars, zoomVars, runVars, splitVars, viewVars>>
  /\ UNCHANGED <<outcomes, ocrDoc, progress>>

\* ocrWorker.js: Tesseract.recognize rejected, post the error
WorkerError(j) ==
  /\ worker = "alive"
  /\ j \in jobs
  /\ jobs' = jobs \ {j}
  /\ outbox' = Append(outbox, [id |-> j.id, type |-> "error", text |-> ""])
  /\ UNCHANGED <<ocrPc, targets, idx, worker, cancelled, listening, modalOpen,
                 fullText, published, pendingId, inbox>>
  /\ UNCHANGED <<docVars, renderVars, toolVars, exportVars, selVars, openVars, pdfVars, zoomVars, runVars, splitVars, viewVars>>
  /\ UNCHANGED <<outcomes, ocrDoc, progress>>

\* everything that can happen once a session was started
OcrSteps ==
  \/ CancelClicked
  \/ CloseClicked
  \/ OcrPageResolves
  \/ OcrNoContext
  \/ OcrPageFails
  \/ OcrRasterResolves
  \/ OcrRasterFails
  \/ \E text \in Texts : FallbackResolves(text)
  \/ FallbackFails
  \/ \E p \in 1..MaxProgress : FallbackProgress(p)
  \/ Dispatch
  \/ WorkerReceives
  \/ \E j \in jobs : WorkerProgress(j)
  \/ \E j \in jobs, text \in Texts : WorkerResult(j, text)
  \/ \E j \in jobs : WorkerError(j)

OcrNext ==
  \/ \E tg \in TargetLists, w \in BOOLEAN : OcrStart(tg, w)
  \/ OcrSteps

(***************************************************************************)
(* An OCR session on a document of the registry, with the tab's close      *)
(* button                                                                  *)
(***************************************************************************)
\* number of documents opened beside the session
MaxSessionDocs == 1

\* a well-formed file is opened
OpenOne(t, n) ==
  /\ tabIdCounter + Pending < MaxSessionDocs
  /\ CreateStart(t, n, "ok")

\* ocr(): "const doc = getActiveDocument(); if (!doc || !doc.pdfJsDoc) return"
OcrStartOnActive(tg, workerCreated) ==
  /\ getActiveDocument # 0
  /\ OcrStart(tg, workerCreated)

\* the close button of a tab, reachable when no modal covers the window:
\* forceCloseDocument for a clean document
TabCloseClicked(docId) ==
  /\ ~modalOpen
  /\ findIndex(documents, docId) # -1
  /\ ~heap[docId].isDirty
  /\ forceCloseDocument(docId)

\* closeDocument called for a tab while no modal covers the window
CloseRequested(docId) ==
  /\ ~modalOpen
  /\ findIndex(documents, docId) # -1
  /\ closeDocument(docId)

SessionNext ==
  \/ \E t \in Slots, n \in 1..MaxPages : OpenOne(t, n)
  \/ \E t \in Slots : CreateEnd(t)
  \/ \E tg \in TargetLists, w \in BOOLEAN : OcrStartOnActive(tg, w)
  \/ OcrSteps
  \/ \E id \in 1..tabIdCounter : TabCloseClicked(id)
  \/ \E id \in 1..tabIdCounter : CloseRequested(id)

(***************************************************************************)
(* toolOperations.ts: the tools that edit the active document (compress,   *)
(* watermark, stamps, sign, rotate, deletePages, ...), started by          *)
(* executeToolAction or a keyboard shortcut without being awaited          *)
(***************************************************************************)
\* number of tool operations suspended at the same time
MaxTools == 2

ToolSlots == 1..MaxTools

NoTool == [pc |-> "idle", doc |-> 0, base |-> NoBytes]

ToolInit == tools = [k \in ToolSlots |-> NoTool]

FreeToolSlot(k) == tools[k].pc = "idle" /\ \A j \in 1..(k-1) : tools[j].pc # "idle"

\* executeToolAction(toolId) runs the handler: "const doc = getActiveDocument();
\* if (!doc) return; const pdfDoc = await PDFDocument.load(doc.pdfBytes)".
\* The tool now works on the bytes it loaded (base) and is suspended on the
\* load, a modal or a placement overlay.
ToolStart(k) ==
  /\ FreeToolSlot(k)
  /\ getActiveDocument # 0
  /\ tools' = [tools EXCEPT ![k] = [pc |-> "waiting", doc |-> getActiveDocument,
                                    base |-> heap[getActiveDocument].pdfBytes]]
  /\ UNCHANGED <<docVars, renderVars, ocrVars, exportVars, selVars, openVars, pdfVars, zoomVars, runVars, splitVars, viewVars>>

\* the modal was dismissed: "if (!opts) return"
ToolCancelled(k) ==
  /\ tools[k].pc = "waiting"
  /\ tools' = [tools EXCEPT ![k] = NoTool]
  /\ UNCHANGED <<docVars, renderVars, ocrVars, exportVars, selVars, openVars, pdfVars, zoomVars, runVars, splitVars, viewVars>>

\* savePdfDocToActive(doc, pdfDoc): "await pdfDoc.save()" resolved with the
\* edited bytes (n pages) and updateDocumentBytes(doc, bytes) is called
ToolCommits(k, t, n) ==
  /\ tools[k].pc = "waiting"
  /\ UpdateCall(t, tools[k].doc, n, "ok")
  /\ tools' = [tools EXCEPT ![k] = NoTool]
  /\ UNCHANGED <<renderVars, ocrVars, exportVars, selVars, openVars, pdfVars, zoomVars, runVars, splitVars, viewVars>>

\* the tools, undo and redo (ribbon buttons and Ctrl+Z / Ctrl+Y) on
\* documents opened from well-formed files
ToolNext ==
  \/ \E t \in Slots, n \in 1..MaxPages : CreateStart(t, n, "ok")
  \/ \E t \in Slots : CreateEnd(t)
  \/ \E k \in ToolSlots : ToolStart(k)
  \/ \E k \in ToolSlots : ToolCancelled(k)
  \/ \E k \in ToolSlots, t \in Slots, n \in 1..MaxPages : ToolCommits(k, t, n)
  \/ \E t \in Slots : UndoStart(t)
  \/ \E t \in Slots : RedoStart(t)
  \/ \E t \in Slots : LoadResolves(t)
  \/ \E t \in Slots : UpdateEndStep(t)
  \/ \E t \in Slots : UndoRedoEnd(t)

(***************************************************************************)
(* viewer.ts: page navigation on a document that is being edited           *)
(***************************************************************************)
Min(a, b) == IF a < b THEN a ELSE b
Max(a, b) == IF a > b THEN a ELSE b

\* doc.pdfJsDoc.numPages
numPages(pdfJsDoc) == pdfJsDoc.of.n

\* goToPage(pageNum) up to "await renderCurrentPage(doc)"; nextPage and
\* prevPage are goToPage(doc.currentPage + 1) and goToPage(doc.currentPage - 1)
goToPage(pageNum) ==
  /\ getActiveDocument # 0
  /\ LET d == getActiveDocument
         maxPage == numPages(heap[d].pdfJsDoc)
         clamped == Max(1, Min(pageNum, maxPage))
     IN heap' = [heap EXCEPT ![d].currentPage = clamped]
  /\ UNCHANGED <<documents, activeDocIndex, tabIdCounter, tasks, clock, ref>>
  /\ UNCHANGED <<renderVars, ocrVars, toolVars, exportVars, selVars, openVars, pdfVars, zoomVars, runVars, splitVars, viewVars>>

\* the page numbers a caller may pass: one below and one above every page
PageNumbers == 0..(MaxPages + 1)

PagesNext ==
  \/ \E t \in Slots, n \in 1..MaxPages : OpenOne(t, n)
  \/ \E t \in Slots : CreateEnd(t)
  \/ \E pageNum \in PageNumbers : goToPage(pageNum)
  \/ \E t \in Slots, d \in 1..tabIdCounter, n \in 1..MaxPages : UpdateStart(t, d, n, "ok")
  \/ \E t \in Slots : UndoStart(t)
  \/ \E t \in Slots : RedoStart(t)
  \/ \E t \in Slots : LoadResolves(t)
  \/ \E t \in Slots : UpdateEndStep(t)
  \/ \E t \in Slots : UndoRedoEnd(t)

(***************************************************************************)
(* documentManager.ts: download of the active document                     *)
(***************************************************************************)
\* the character class [<>:"/\\|?*] of the first replace
Forbidden == {"<", ">", ":", "\"", "/", "\\", "|", "?", "*"}

LowerCase == <<"a","b","c","d","e","f","g","h","i","j","k","l","m",
               "n","o","p","q","r","s","t","u","v","w","x","y","z">>
UpperCase == <<"A","B","C","D","E","F","G","H","I","J","K","L","M",
               "N","O","P","Q","R","S","T","U","V","W","X","Y","Z">>

\* String.prototype.toUpperCase and toLowerCase on one character
toUpperChar(c) ==
  IF \E i \in 1..26 : LowerCase[i] = c
    THEN UpperCase[CHOOSE i \in 1..26 : LowerCase[i] = c]
    ELSE c
toLowerChar(c) ==
  IF \E i \in 1..26 : UpperCase[i] = c
    THEN LowerCase[CHOOSE i \in 1..26 : UpperCase[i] = c]
    ELSE c
toUpperCase(str) == [i \in 1..Len(str) |-> toUpperChar(str[i])]
toLowerCase(str) == [i \in 1..Len(str) |-> toLowerChar(str[i])]

\* .replace(/[<>:"/\\|?*]/g, '_')
replaceForbidden(str) ==
  [i \in 1..Len(str) |-> IF str[i] \in Forbidden THEN "_" ELSE str[i]]

DotPdf == <<".", "p", "d", "f">>

\* .replace(/\.pdf$/i, '')
replaceDotPdf(str) ==
  IF Len(str) >= 4 /\ toLowerCase(SubSeq(str, Len(str) - 3, Len(str))) = DotPdf
    THEN SubSeq(str, 1, Len(str) - 4)
    ELSE str

\* .trim()
trim(str) ==
  LET inked == {i \in 1..Len(str) : str[i] # " "}
  IN IF inked = {} THEN <<>>
     ELSE SubSeq(str, CHOOSE i \in inked : \A j \in inked : i <= j,
                      CHOOSE i \in inked : \A j \in inked : i >= j)

sanitizedBase(name) == trim(replaceDotPdf(replaceForbidden(name)))

reservedNames ==
  {<<"C","O","N">>, <<"P","R","N">>, <<"A","U","X">>, <<"N","U","L">>}
  \cup {<<"C","O","M",d>> : d \in {"1","2","3","4","5","6","7","8","9"}}
  \cup {<<"L","P","T",d>> : d \in {"1","2","3","4","5","6","7","8","9"}}

Digits == <<"0","1","2","3","4","5","6","7","8","9">>

\* the decimal digits of a number, as template literals print it
RECURSIVE Decimal(_)
Decimal(n) ==
  IF n < 10 THEN <<Digits[n + 1]>>
  ELSE Append(Decimal(n \div 10), Digits[(n % 10) + 1])

\* `document-${Date.now()}`
TimestampName(now) == <<"d","o","c","u","m","e","n","t","-">> \o Decimal(now)

\* variant: the reserved names are compared without toUpperCase
safeBaseNameCaseSensitive(base, now) ==
  IF base # <<>> /\ base \notin reservedNames
    THEN base
    ELSE TimestampName(now)

safeBaseName(base, now) ==
  IF base # <<>> /\ toUpperCase(base) \notin reservedNames
    THEN base
    ELSE TimestampName(now)

EditedPdf == <<"_","e","d","i","t","e","d",".","p","d","f">>

\* markDocumentClean(doc)
markDocumentClean(d) == heap' = [heap EXCEPT ![d].isDirty = FALSE]

downloadActiveDocument ==
  /\ getActiveDocument # 0
  /\ download' = safeBaseName(sanitizedBase(fileName), clock) \o EditedPdf
  /\ markDocumentClean(getActiveDocument)
  /\ UNCHANGED <<documents, activeDocIndex, tabIdCounter, tasks, clock, ref>>
  /\ UNCHANGED <<renderVars, ocrVars, toolVars, fileName, selVars, openVars, pdfVars, zoomVars, runVars, splitVars, viewVars>>

ReportPdf == <<"r","e","p","o","r","t",".","p","d","f">>

ExportInit ==
  /\ fileName = ReportPdf
  /\ download = <<>>

\* the file names a document is opened under: a stem, padded or not with a
\* blank on either side, with or without the extension
Stems ==
  {<<>>, <<"r","e","p","o","r","t">>, <<"a","?","b">>, <<"<",">",":","\"">>,
   <<"/","\\","|","*">>, <<"a"," ","b">>, <<"a",".","p","d","f">>,
   <<"C","O","N">>, <<"c","o","n">>, <<"P","r","n">>, <<"A","U","X">>, <<"n","u","l">>,
   <<"C","O","M","1">>, <<"c","o","m","9">>, <<"L","P","T","5">>, <<"C","O","M","0">>,
   <<"C","O","N","S">>, <<"L","P","T">>}
Pads == {<<>>, <<" ">>}
Extensions == {<<>>, DotPdf, <<".","P","D","F">>, <<".","P","d","f">>}
FileNames == {l \o stem \o e \o r : l \in Pads, stem \in Stems, e \in Extensions, r \in Pads}

\* a session that opens a file of any of these names and downloads it
DownloadInit ==
  /\ fileName \in FileNames
  /\ download = <<>>

DownloadNext ==
  \/ \E t \in Slots, n \in 1..MaxPages : OpenOne(t, n)
  \/ \E t \in Slots : CreateEnd(t)
  \/ downloadActiveDocument

\* edits, undo and redo of one document, its export and its closing
ExportNext ==
  \/ \E t \in Slots, n \in 1..MaxPages : OpenOne(t, n)
  \/ \E t \in Slots : CreateEnd(t)
  \/ \E t \in Slots, d \in 1..tabIdCounter, n \in 1..MaxPages : UpdateStart(t, d, n, "ok")
  \/ \E t \in Slots : UndoStart(t)
  \/ \E t \in Slots : RedoStart(t)
  \/ \E t \in Slots : LoadResolves(t)
  \/ \E t \in Slots : UpdateEndStep(t)
  \/ \E t \in Slots : UndoRedoEnd(t)
  \/ downloadActiveDocument
  \/ \E docId \in 1..tabIdCounter : CloseRequested(docId)

(***************************************************************************)
(* state.ts and toolOperations.ts: the tools that work on the selection    *)
(***************************************************************************)
\* the indices a caller may pass to selectPage: every page index of the
\* largest document and one beyond it
PageIndices == 0..MaxPages

includes(seq, x) == \E j \in 1..Len(seq) : seq[j] = x
Elements(seq) == {seq[j] : j \in 1..Len(seq)}

NoRun == [selected |-> <<>>, currentPage |-> 0, pageCount |-> 0,
          pages |-> {}, how |-> "none"]

SelectInit ==
  /\ selectedPageIndices = <<>>
  /\ lastRun = NoRun
  /\ toolTasks = {}

\* variant: push without the sort
selectPageUnsorted(index) ==
  /\ selectedPageIndices' = IF includes(selectedPageIndices, index)
                              THEN selectedPageIndices
                              ELSE Append(selectedPageIndices, index)
  /\ UNCHANGED <<lastRun, toolTasks>>
  /\ UNCHANGED <<docVars, renderVars, ocrVars, toolVars, exportVars, openVars, pdfVars, zoomVars, runVars, splitVars, viewVars>>

\* push and sort
selectPage(index) ==
  /\ selectedPageIndices' = IF includes(selectedPageIndices, index)
                              THEN selectedPageIndices
                              ELSE Sorted(Elements(selectedPageIndices) \cup {index})
  /\ UNCHANGED <<lastRun, toolTasks>>
  /\ UNCHANGED <<docVars, renderVars, ocrVars, toolVars, exportVars, openVars, pdfVars, zoomVars, runVars, splitVars, viewVars>>

\* indexOf and splice
deselectPage(index) ==
  /\ selectedPageIndices' = SelectSeq(selectedPageIndices, LAMBDA x : x # index)
  /\ UNCHANGED <<lastRun, toolTasks>>
  /\ UNCHANGED <<docVars, renderVars, ocrVars, toolVars, exportVars, openVars, pdfVars, zoomVars, runVars, splitVars, viewVars>>

\* const targets = selected.length ? selected : [Math.max(0, doc.currentPage - 1)]
pageTargets(selected, currentPage) ==
  IF Len(selected) > 0 THEN selected ELSE <<Max(0, currentPage - 1)>>

\* the targets that pass "i >= 0 && i < pageCount"
inRange(tg, pageCount) == {i \in Elements(tg) : i >= 0 /\ i < pageCount}

\* rotateLeft / rotateRight / rotate180, watermark, stamps, sign, annotate with
\* every prompt answered: from the resolution of PDFDocument.load(doc.pdfBytes)
\* through savePdfDocToActive to the first await of updateDocumentBytes
PageToolCall(k, t) ==
  /\ tools[k].pc = "waiting"
  /\ LET d == tools[k].doc
         pageCount == tools[k].base.n
         tg == pageTargets(selectedPageIndices, heap[d].currentPage)
     IN /\ UpdateCall(t, d, pageCount, "ok")
        /\ lastRun' = [selected |-> selectedPageIndices,
                       currentPage |-> heap[d].currentPage, pageCount |-> pageCount,
                       pages |-> inRange(tg, pageCount), how |-> "completed"]
  /\ tools' = [tools EXCEPT ![k] = NoTool]
  /\ toolTasks' = toolTasks \cup {t}
  /\ UNCHANGED selectedPageIndices
  /\ UNCHANGED <<renderVars, ocrVars, exportVars, openVars, zoomVars, runVars, splitVars, viewVars>>

\* the same, the contents of the buffers left out
PageTool(k, t) ==
  /\ PageToolCall(k, t)
  /\ UNCHANGED pdfVars

\* deletePages() on the selection, the same stretch; removing every page of
\* the document is left out
deletePages(k, t) ==
  /\ tools[k].pc = "waiting"
  /\ LET d == tools[k].doc
         pageCount == tools[k].base.n
         tg == pageTargets(selectedPageIndices, heap[d].currentPage)
         removed == inRange(tg, pageCount)
     IN /\ pageCount - Cardinality(removed) >= 1
        /\ UpdateCall(t, d, pageCount - Cardinality(removed), "ok")
        /\ lastRun' = [selected |-> selectedPageIndices,
                       currentPage |-> heap[d].currentPage, pageCount |-> pageCount,
                       pages |-> removed, how |-> "completed"]
  /\ tools' = [tools EXCEPT ![k] = NoTool]
  /\ toolTasks' = toolTasks \cup {t}
  /\ UNCHANGED selectedPageIndices
  /\ UNCHANGED <<renderVars, ocrVars, exportVars, openVars, pdfVars, zoomVars, runVars, splitVars, viewVars>>

\* extractPages() up to the awaits of createDocumentFromBytes.  copyPages
\* dereferences src.getPages()[index] for every index handed to it, so an
\* index beyond the last page makes the call reject.
extractPages(t) ==
  /\ getActiveDocument # 0
  /\ LET d == getActiveDocument
         selected == selectedPageIndices
         pageCount == heap[d].pdfBytes.n
         run(pages, how) == [selected |-> selected, currentPage |-> heap[d].currentPage,
                             pageCount |-> pageCount, pages |-> pages, how |-> how]
     IN IF Len(selected) = 0
          THEN /\ lastRun' = run({}, "alert")
               /\ UNCHANGED <<docVars, toolTasks>>
        ELSE IF inRange(selected, pageCount) # Elements(selected)
          THEN /\ lastRun' = run({}, "threw")
               /\ UNCHANGED <<docVars, toolTasks>>
        ELSE /\ CreateCall(t, Len(selected), "ok")
             /\ lastRun' = run(Elements(selected), "completed")
             /\ toolTasks' = toolTasks \cup {t}
  /\ UNCHANGED selectedPageIndices
  /\ UNCHANGED <<renderVars, ocrVars, toolVars, exportVars, openVars, pdfVars, zoomVars, runVars, splitVars, viewVars>>

\* the registry call a tool awaits returns and the tool goes on to
\* clearPageSelection()
ToolReturns(t) ==
  /\ t \in toolTasks
  /\ UpdateReturn(t) \/ CreateReturn(t)
  /\ selectedPageIndices' = <<>>
  /\ toolTasks' = toolTasks \ {t}
  /\ UNCHANGED lastRun
  /\ UNCHANGED <<renderVars, ocrVars, toolVars, exportVars, openVars, pdfVars, zoomVars, runVars, splitVars, viewVars>>

\* a file opened by the user finishes loading
OpenReturns(t) ==
  /\ t \notin toolTasks
  /\ CreateEnd(t)

SelectNext ==
  \/ \E t \in Slots, n \in 1..MaxPages : OpenOne(t, n)
  \/ \E t \in Slots : OpenReturns(t)
  \/ \E pageNum \in PageNumbers : goToPage(pageNum)
  \/ \E index \in PageIndices : selectPage(index)
  \/ \E index \in PageIndices : deselectPage(index)
  \/ \E k \in ToolSlots : ToolStart(k)
  \/ \E k \in ToolSlots, t \in Slots : PageTool(k, t)
  \/ \E k \in ToolSlots, t \in Slots : deletePages(k, t)
  \/ \E t \in Slots : extractPages(t)
  \/ \E t \in Slots : LoadResolves(t)
  \/ \E t \in Slots : ToolReturns(t)

(***************************************************************************)
(* main.ts: handleFiles                                                    *)
(***************************************************************************)
\* number of files handed to handleFiles at once
MaxFiles == 2

\* the lists pdfFiles can be: every file a buffer of Buffers
FileLists ==
  {<<>>} \cup {<<b>> : b \in Buffers}
         \cup (IF MaxFiles >= 2 THEN {<<b, c>> : b \in Buffers, c \in Buffers} ELSE {})

OpenInit ==
  /\ isProcessing = FALSE
  /\ alertShown = "none"
  /\ fileQueue = <<>>
  /\ filesPc = "idle"
  /\ filesTask = 0

\* handleFiles(files) up to the first "await openDocument(file)"; one call
\* at a time
handleFiles(pdfFiles) ==
  /\ filesPc = "idle"
  /\ IF Len(pdfFiles) = 0
       THEN /\ alertShown' = "Invalid File"
            /\ UNCHANGED <<isProcessing, fileQueue, filesPc>>
       ELSE /\ isProcessing' = TRUE
            /\ fileQueue' = pdfFiles
            /\ filesPc' = "next"
            /\ UNCHANGED alertShown
  /\ UNCHANGED filesTask
  /\ UNCHANGED <<docVars, renderVars, ocrVars, toolVars, exportVars, selVars, pdfVars, zoomVars, runVars, splitVars, viewVars>>

\* openDocument(file): file.arrayBuffer() resolved, createDocumentFromBytes
\* is called and suspends
NextFile(t) ==
  /\ filesPc = "next"
  /\ CreateCall(t, Head(fileQueue)[1], Head(fileQueue)[2])
  /\ fileQueue' = Tail(fileQueue)
  /\ filesPc' = "opening"
  /\ filesTask' = t
  /\ UNCHANGED <<isProcessing, alertShown>>
  /\ UNCHANGED <<renderVars, ocrVars, toolVars, exportVars, selVars, pdfVars, zoomVars, runVars, splitVars, viewVars>>

\* openDocument returns: the loop goes on, or showViewerToolbar() and finally
FileOpened(t) ==
  /\ filesPc = "opening" /\ filesTask = t
  /\ CreateReturn(t)
  /\ IF Len(fileQueue) > 0
       THEN /\ filesPc' = "next"
            /\ UNCHANGED isProcessing
       ELSE /\ filesPc' = "idle"
            /\ isProcessing' = FALSE
  /\ filesTask' = 0
  /\ UNCHANGED <<alertShown, fileQueue>>
  /\ UNCHANGED <<renderVars, ocrVars, toolVars, exportVars, selVars, pdfVars, zoomVars, runVars, splitVars, viewVars>>

\* openDocument throws: catch shows the alert, finally clears the flag; the
\* files behind the failed one are not opened
FileRejected(t) ==
  /\ filesPc = "opening" /\ filesTask = t
  /\ tasks[t].op = "create" /\ tasks[t].pc = "open"
  /\ ~RasterOk(tasks[t].bytes)
  /\ Rejects(t)
  /\ alertShown' = "Error"
  /\ isProcessing' = FALSE
  /\ fileQueue' = <<>>
  /\ filesPc' = "idle"
  /\ filesTask' = 0
  /\ UNCHANGED <<renderVars, ocrVars, toolVars, exportVars, selVars, pdfVars, zoomVars, runVars, splitVars, viewVars>>

OpenNext ==
  \/ \E pdfFiles \in FileLists : handleFiles(pdfFiles)
  \/ \E t \in Slots : NextFile(t)
  \/ \E t \in Slots : FileOpened(t)
  \/ \E t \in Slots : FileRejected(t)
  \/ \E docId \in DocIds : switchToDocument(docId)
  \/ \E docId \in DocIds : forceCloseDocument(docId)

(***************************************************************************)
(* toolOperations.ts: rotateLeft and the contents of the buffers           *)
(***************************************************************************)
\* the /Rotate angles a page of an opened file can carry
Angles == {-90, 0, 90, 270, 360}

\* the % of JavaScript: the sign of the result is the sign of the dividend
Remainder(a, b) == IF a >= 0 THEN a % b ELSE -((-a) % b)

\* variant: the angle is not brought back into [0, 360)
rotatedLeftRaw(angle) == Remainder(angle - 90, 360)

\* ((p.getRotation().angle - 90) % 360 + 360) % 360
rotatedLeft(angle) == Remainder(Remainder(angle - 90, 360) + 360, 360)

\* the pages of an opened file: buffer number v, one angle per page
FilePages(v, angles) == [i \in 1..Len(angles) |-> [of |-> <<v, i>>, rot |-> angles[i]]]

Rotations(pages) == [i \in 1..Len(pages) |-> pages[i].rot]

AngleLists(n) == [1..n -> Angles]

NoEdit == [tool |-> "none", doc |-> 0, was |-> <<>>, depth |-> 0, arg |-> {}, after |-> 0]

\* what a tool finds and saves, as lastEdit keeps it
Edit(tool, d, arg) ==
  [tool |-> tool, doc |-> d, was |-> contents[heap[d].pdfBytes.v],
   depth |-> Len(heap[d].undoStack), arg |-> arg, after |-> clock + 1]

PdfInit ==
  /\ contents = <<>>
  /\ lastEdit = NoEdit

\* no registry call and no tool is suspended
Quiet ==
  /\ \A t \in Slots : tasks[t].op = "idle"
  /\ \A k \in ToolSlots : tools[k].pc = "idle"

\* a file opened by the user finishes loading; its pages carry any angles
FileOpens(t, angles) ==
  /\ t \notin toolTasks
  /\ CreateReturn(t)
  /\ Len(angles) = tasks[t].bytes.n
  /\ contents' = Append(contents, FilePages(clock + 1, angles))
  /\ UNCHANGED lastEdit
  /\ UNCHANGED <<renderVars, ocrVars, toolVars, exportVars, selVars, openVars, zoomVars, runVars, splitVars, viewVars>>

\* a tool is started while nothing else runs
QuietToolStart(k) == Quiet /\ ToolStart(k)

\* rotateLeft(): from the resolution of PDFDocument.load(doc.pdfBytes) through
\* savePdfDocToActive to the first await of updateDocumentBytes
rotateLeft(k, t) ==
  /\ PageToolCall(k, t)
  /\ LET d == tools[k].doc
         loaded == contents[tools[k].base.v]
         pageCount == tools[k].base.n
         tg == inRange(pageTargets(selectedPageIndices, heap[d].currentPage), pageCount)
     IN /\ contents' = Append(contents,
                          [i \in 1..Len(loaded) |->
                             IF (i - 1) \in tg
                               THEN [loaded[i] EXCEPT !.rot = rotatedLeft(@)]
                               ELSE loaded[i]])
        /\ lastEdit' = Edit("rotateLeft", d, tg)

\* undo() and redo() called while nothing else runs
QuietUndo(t) == Quiet /\ UndoStart(t)
QuietRedo(t) == Quiet /\ RedoStart(t)

\* updateDocumentBytes called by a tool that does not touch the selection
\* returns
EditReturns(t) ==
  /\ t \notin toolTasks
  /\ UpdateEndStep(t)

\* the pages of the j-th file handed to mergeFiles, n of them
OtherPages(j, n) == [i \in 1..n |-> [of |-> <<-j, i>>, rot |-> 0]]

\* the page counts of the files handed to mergeFiles
MergeLists ==
  {<<>>} \cup {<<a>> : a \in 1..MaxPages}
         \cup (IF MaxFiles >= 2 THEN {<<a, b>> : a \in 1..MaxPages, b \in 1..MaxPages} ELSE {})

\* variant: the pages of each file are put in front of the pages collected
\* so far
RECURSIVE addedInFront(_, _, _)
addedInFront(pages, counts, j) ==
  IF j > Len(counts) THEN pages
  ELSE addedInFront(OtherPages(j, counts[j]) \o pages, counts, j + 1)

\* the for loop: copyPages(other, other.getPageIndices()) and addPage for
\* each copied page, file after file from the j-th on
RECURSIVE addPages(_, _, _)
addPages(pages, counts, j) ==
  IF j > Len(counts) THEN pages
  ELSE addPages(pages \o OtherPages(j, counts[j]), counts, j + 1)

\* mergeFiles(fileList): from the resolution of PDFDocument.load(doc.pdfBytes)
\* through the loop and savePdfDocToActive to the first await of
\* updateDocumentBytes; every file loads
mergeFiles(k, t, counts) ==
  /\ tools[k].pc = "waiting"
  /\ LET d == tools[k].doc
         merged == addPages(contents[tools[k].base.v], counts, 1)
     IN /\ UpdateCall(t, d, Len(merged), "ok")
        /\ contents' = Append(contents, merged)
        /\ lastEdit' = Edit("mergeFiles", d, counts)
  /\ tools' = [tools EXCEPT ![k] = NoTool]
  /\ UNCHANGED <<renderVars, ocrVars, exportVars, selVars, openVars, zoomVars, runVars, splitVars, viewVars>>

MergeNext ==
  \/ \E t \in Slots, n \in 1..MaxPages : OpenOne(t, n)
  \/ \E t \in Slots, n \in 1..MaxPages : \E angles \in AngleLists(n) : FileOpens(t, angles)
  \/ \E k \in ToolSlots : QuietToolStart(k)
  \/ \E k \in ToolSlots, t \in Slots, counts \in MergeLists : mergeFiles(k, t, counts)
  \/ \E t \in Slots : LoadResolves(t)
  \/ \E t \in Slots : EditReturns(t)
  \/ \E t \in Slots : QuietUndo(t)
  \/ \E t \in Slots : QuietRedo(t)
  \/ \E t \in Slots : UndoRedoEnd(t)

RotateNext ==
  \/ \E t \in Slots, n \in 1..MaxPages : OpenOne(t, n)
  \/ \E t \in Slots, n \in 1..MaxPages : \E angles \in AngleLists(n) : FileOpens(t, angles)
  \/ \E index \in PageIndices : selectPage(index)
  \/ \E index \in PageIndices : deselectPage(index)
  \/ \E k \in ToolSlots : QuietToolStart(k)
  \/ \E k \in ToolSlots, t \in Slots : rotateLeft(k, t)
  \/ \E t \in Slots : LoadResolves(t)
  \/ \E t \in Slots : ToolReturns(t)
  \/ \E t \in Slots : QuietUndo(t)
  \/ \E t \in Slots : QuietRedo(t)
  \/ \E t \in Slots : UndoRedoEnd(t)

(***************************************************************************)
(* viewer.ts: zoomIn, zoomOut, fitToPage, setZoom and refreshViewer.       *)
(* Zoom factors are in hundredths: 1.0 is 100.                             *)
(***************************************************************************)
MIN_ZOOM == 25
MAX_ZOOM == 400
ZOOM_STEP == 25

\* the number value NaN: no comparison with it is true, and arithmetic,
\* Math.min and Math.max on it give NaN again
NaN == -1000000

Less(a, b) == a # NaN /\ b # NaN /\ a < b
Plus(a, b) == IF a = NaN \/ b = NaN THEN NaN ELSE a + b
MathMin(a, b) == IF a = NaN \/ b = NaN THEN NaN ELSE Min(a, b)
MathMax(a, b) == IF a = NaN \/ b = NaN THEN NaN ELSE Max(a, b)

\* what a caller may pass to setZoom(zoom: number)
ZoomArguments == {NaN, -100, 10, 110, 1000}

\* what Math.min(scaleX, scaleY) / 1.5 may come to: negative when the viewer
\* area is narrower than its 40px padding, else any positive factor
FitScales == {-20, 390, 1000}

ZoomInit ==
  /\ currentZoom = 100
  /\ fitting = 0
  /\ refreshing = {}
  /\ thumbnails = 0

\* Math.max(MIN_ZOOM, Math.min(zoom, MAX_ZOOM))
clamped(zoom) == MathMax(MIN_ZOOM, MathMin(zoom, MAX_ZOOM))

\* refreshCurrentPage() up to the first await of renderCurrentPage(doc):
\* a render call is made when a document is active
refreshCurrentPage ==
  IF getActiveDocument # 0
    THEN Len(reqs) < MaxRenders /\ reqs' = Append(reqs, NewRequest)
    ELSE UNCHANGED reqs

\* zoomIn(): "if (currentZoom < MAX_ZOOM) { ... }"; outside the guard the
\* call does nothing
zoomIn ==
  /\ Less(currentZoom, MAX_ZOOM)
  /\ currentZoom' = MathMin(Plus(currentZoom, ZOOM_STEP), MAX_ZOOM)
  /\ refreshCurrentPage
  /\ UNCHANGED <<fitting, refreshing, thumbnails, currentRenderTask, canvas>>
  /\ UNCHANGED <<docVars, ocrVars, toolVars, exportVars, selVars, openVars, pdfVars, runVars, splitVars, viewVars>>

\* zoomOut(): "if (currentZoom > MIN_ZOOM) { ... }"
zoomOut ==
  /\ Less(MIN_ZOOM, currentZoom)
  /\ currentZoom' = MathMax(Plus(currentZoom, -ZOOM_STEP), MIN_ZOOM)
  /\ refreshCurrentPage
  /\ UNCHANGED <<fitting, refreshing, thumbnails, currentRenderTask, canvas>>
  /\ UNCHANGED <<docVars, ocrVars, toolVars, exportVars, selVars, openVars, pdfVars, runVars, splitVars, viewVars>>

\* fitToPage() up to "await doc.pdfJsDoc.getPage(doc.currentPage)"
fitToPage ==
  /\ getActiveDocument # 0
  /\ fitting < MaxTasks
  /\ fitting' = fitting + 1
  /\ UNCHANGED <<currentZoom, refreshing, thumbnails, renderVars>>
  /\ UNCHANGED <<docVars, ocrVars, toolVars, exportVars, selVars, openVars, pdfVars, runVars, splitVars, viewVars>>

\* getPage resolved: the zoom is computed from the page and the viewer area,
\* clamped, and the current page is rendered again
FitResolves(scale) ==
  /\ fitting > 0
  /\ fitting' = fitting - 1
  /\ currentZoom' = clamped(scale)
  /\ refreshCurrentPage
  /\ UNCHANGED <<refreshing, thumbnails, currentRenderTask, canvas>>
  /\ UNCHANGED <<docVars, ocrVars, toolVars, exportVars, selVars, openVars, pdfVars, runVars, splitVars, viewVars>>

\* getPage rejected: "catch (error) { console.error(...) }"
FitFails ==
  /\ fitting > 0
  /\ fitting' = fitting - 1
  /\ UNCHANGED <<currentZoom, refreshing, thumbnails, renderVars>>
  /\ UNCHANGED <<docVars, ocrVars, toolVars, exportVars, selVars, openVars, pdfVars, runVars, splitVars, viewVars>>

\* setZoom(zoom): the render call is not awaited
setZoom(zoom) ==
  /\ currentZoom' = clamped(zoom)
  /\ refreshCurrentPage
  /\ UNCHANGED <<fitting, refreshing, thumbnails, currentRenderTask, canvas>>
  /\ UNCHANGED <<docVars, ocrVars, toolVars, exportVars, selVars, openVars, pdfVars, runVars, splitVars, viewVars>>

\* refreshViewer() with a document active, up to the first await of
\* "await renderCurrentPage(doc)"
refreshViewer ==
  /\ getActiveDocument # 0
  /\ Len(reqs) < MaxRenders
  /\ reqs' = Append(reqs, NewRequest)
  /\ refreshing' = refreshing \cup {Len(reqs) + 1}
  /\ UNCHANGED <<currentZoom, fitting, thumbnails, currentRenderTask, canvas>>
  /\ UNCHANGED <<docVars, ocrVars, toolVars, exportVars, selVars, openVars, pdfVars, runVars, splitVars, viewVars>>

\* the render call refreshViewer awaited has returned: renderThumbnails(doc)
ThumbnailsRendered(r) ==
  /\ r \in refreshing
  /\ reqs[r].pc = "done"
  /\ refreshing' = refreshing \ {r}
  /\ thumbnails' = thumbnails + 1
  /\ UNCHANGED <<currentZoom, fitting, renderVars>>
  /\ UNCHANGED <<docVars, ocrVars, toolVars, exportVars, selVars, openVars, pdfVars, runVars, splitVars, viewVars>>

ZoomNext ==
  \/ \E t \in Slots, n \in 1..MaxPages : OpenOne(t, n)
  \/ \E t \in Slots : CreateEnd(t)
  \/ zoomIn
  \/ zoomOut
  \/ fitToPage
  \/ \E scale \in FitScales : FitResolves(scale)
  \/ FitFails
  \/ \E zoom \in ZoomArguments : setZoom(zoom)
  \/ refreshViewer
  \/ \E r \in 1..Len(reqs) : ThumbnailsRendered(r)
  \/ \E r \in 1..Len(reqs) : PageResolves(r)
  \/ \E r \in 1..Len(reqs) : PageFails(r)
  \/ \E r \in 1..Len(reqs) : RenderCompletes(r)
  \/ \E r \in 1..Len(reqs) : CancelObserved(r)
  \/ \E r \in 1..Len(reqs) : RenderFails(r)

(***************************************************************************)
(* toolOperations.ts ocr() called more than once, with ui/textModal.ts.    *)
(* The exchange with the worker is left out: a page ends in one step.      *)
(***************************************************************************)
\* ocr() calls made in one run
MaxSessions == 2

RunInit ==
  /\ sessions = <<>>
  /\ textModal = 0

\* ocr() from the accepted options modal to the first await of the loop:
\* showTextModal replaces the #text-modal in the DOM, the call's flag is
\* false and its cancelListener is added to window.  The tool is reachable
\* when no modal covers the page.
ocr(tg) ==
  /\ textModal = 0
  /\ Len(sessions) < MaxSessions
  /\ sessions' = Append(sessions, [targets |-> tg, idx |-> 1, cancelled |-> FALSE,
                                   listening |-> TRUE, pc |-> "page"])
  /\ textModal' = Len(sessions) + 1
  /\ UNCHANGED <<docVars, renderVars, ocrVars, toolVars, exportVars, selVars, openVars, pdfVars, zoomVars, splitVars, viewVars>>

\* the Close button of the modal: cleanup() only
TextModalClosed ==
  /\ textModal # 0
  /\ textModal' = 0
  /\ UNCHANGED sessions
  /\ UNCHANGED <<docVars, renderVars, ocrVars, toolVars, exportVars, selVars, openVars, pdfVars, zoomVars, splitVars, viewVars>>

\* the Cancel button of the modal: window.dispatchEvent(new
\* CustomEvent('bentopdf-ocr-cancel')) runs every cancelListener that is
\* registered on window, then cleanup()
TextModalCancelled ==
  /\ textModal # 0
  /\ sessions' = [s \in 1..Len(sessions) |->
                    IF sessions[s].listening
                      THEN [sessions[s] EXCEPT !.cancelled = TRUE]
                      ELSE sessions[s]]
  /\ textModal' = 0
  /\ UNCHANGED <<docVars, renderVars, ocrVars, toolVars, exportVars, selVars, openVars, pdfVars, zoomVars, splitVars, viewVars>>

\* the page a call is at ends, with text or with the error placeholder: the
\* loop goes on to the next target, or the call leaves the loop and its
\* finally block removes the cancelListener
SessionPageEnds(s) ==
  /\ sessions[s].pc = "page"
  /\ sessions' = [sessions EXCEPT ![s] =
       IF LoopContinues(@.idx, @.targets, @.cancelled)
         THEN [@ EXCEPT !.idx = @ + 1]
         ELSE [@ EXCEPT !.pc = "done", !.listening = FALSE]]
  /\ UNCHANGED textModal
  /\ UNCHANGED <<docVars, renderVars, ocrVars, toolVars, exportVars, selVars, openVars, pdfVars, zoomVars, splitVars, viewVars>>

RunNext ==
  \/ \E tg \in TargetLists : ocr(tg)
  \/ TextModalClosed
  \/ TextModalCancelled
  \/ \E s \in 1..Len(sessions) : SessionPageEnds(s)

(***************************************************************************)
(* toolOperations.ts ocr() on the page selection of state.ts               *)
(***************************************************************************)
togglePageSelection(index) ==
  IF includes(selectedPageIndices, index) THEN deselectPage(index) ELSE selectPage(index)

\* Array.from({ length: count }, (_, i) => i)
selectAllPages(count) ==
  /\ selectedPageIndices' = [i \in 1..count |-> i - 1]
  /\ UNCHANGED <<lastRun, toolTasks>>
  /\ UNCHANGED <<docVars, renderVars, ocrVars, toolVars, exportVars, openVars, pdfVars, zoomVars, runVars, splitVars, viewVars>>

clearPageSelection ==
  /\ selectedPageIndices' = <<>>
  /\ UNCHANGED <<lastRun, toolTasks>>
  /\ UNCHANGED <<docVars, renderVars, ocrVars, toolVars, exportVars, openVars, pdfVars, zoomVars, runVars, splitVars, viewVars>>

\* const targets = selected.length ? selected.map(i => i + 1) : [doc.currentPage]
ocrTargets(selected, currentPage) ==
  IF Len(selected) > 0
    THEN [k \in 1..Len(selected) |-> selected[k] + 1]
    ELSE <<currentPage>>

\* ocr() on the active document, its targets read from the selection
ocrOnSelection(workerCreated) ==
  /\ getActiveDocument # 0
  /\ OcrStart(ocrTargets(selectedPageIndices, heap[getActiveDocument].currentPage),
              workerCreated)

OcrPagesNext ==
  \/ \E t \in Slots, n \in 1..MaxPages : OpenOne(t, n)
  \/ \E t \in Slots : CreateEnd(t)
  \/ \E index \in PageIndices : selectPage(index)
  \/ \E index \in PageIndices : deselectPage(index)
  \/ \E index \in PageIndices : togglePageSelection(index)
  \/ \E count \in 0..MaxPages : selectAllPages(count)
  \/ clearPageSelection
  \/ \E w \in BOOLEAN : ocrOnSelection(w)
  \/ OcrSteps

(***************************************************************************)
(* toolOperations.ts ocr() with a worker object that may deliver any        *)
(* message: results of requests already answered, replies with ids of no   *)
(* request                                                                 *)
(***************************************************************************)
\* messages that wait to be dispatched when another one is delivered
MaxOutbox == 1

\* ids that are not the pending one: the ids of 'terminate' messages, an id
\* no request carries, and the ids of the requests of earlier pages
OtherIds == {<<"cancel", 0>>, <<"done", 0>>, <<"ocr", 0>>} \cup {FreshId(k) : k \in 1..(idx - 1)}

OtherMessages ==
  {[id |-> id, type |-> type, text |-> "text", progress |-> MaxProgress] :
     id \in OtherIds, type \in {"progress", "result", "error", "terminated"}}

\* the worker object fires a 'message' event with msg
StrayMessage(msg) ==
  /\ worker = "alive"
  /\ Len(outbox) < MaxOutbox
  /\ outbox' = Append(outbox, msg)
  /\ UNCHANGED <<ocrPc, targets, idx, worker, cancelled, listening, modalOpen,
                 fullText, published, pendingId, inbox, jobs, outcomes, ocrDoc, progress>>
  /\ UNCHANGED <<docVars, renderVars, toolVars, exportVars, selVars, openVars, pdfVars, zoomVars, runVars, splitVars, viewVars>>

StrayNext ==
  \/ OcrNext
  \/ \E msg \in OtherMessages : StrayMessage(msg)

(***************************************************************************)
(* Specifications: the registry, the main canvas and the OCR session are   *)
(* each explored from the state after module load                          *)
(***************************************************************************)
\* no renderCurrentPage call was made
ViewInit ==
  /\ via = <<>>
  /\ thumbs = <<>>

\* no splitPDF call was made
NoSplit == [pc |-> "idle", doc |-> 0, base |-> NoBytes, i |-> 0, task |-> 0, made |-> <<>>]

SplitInit == split = NoSplit

Init ==
  /\ DocInit /\ RenderInit /\ OcrInit /\ ToolInit /\ ExportInit /\ SelectInit /\ OpenInit /\ PdfInit
  /\ ZoomInit /\ RunInit /\ SplitInit /\ ViewInit

Spec == Init /\ [][DocNext]_vars

SpecRender == Init /\ [][RenderNext]_vars

SpecOcr == Init /\ [][OcrNext]_vars

SpecTools == Init /\ [][ToolNext]_vars

SpecSession == Init /\ [][SessionNext]_vars

SpecPages == Init /\ [][PagesNext]_vars

SpecExport == Init /\ [][ExportNext]_vars

SpecSelect == Init /\ [][SelectNext]_vars

SpecOpen == Init /\ [][OpenNext]_vars

\* as Init, with the file name left open
InitAnyName ==
  DocInit /\ RenderInit /\ OcrInit /\ ToolInit /\ SelectInit /\ OpenInit /\ PdfInit /\ ZoomInit
  /\ RunInit /\ SplitInit /\ ViewInit /\ DownloadInit

SpecDownload == InitAnyName /\ [][DownloadNext]_vars

SpecRotate == Init /\ [][RotateNext]_vars

SpecMerge == Init /\ [][MergeNext]_vars

SpecZoom == Init /\ [][ZoomNext]_vars

SpecRun == Init /\ [][RunNext]_vars

SpecOcrPages == Init /\ [][OcrPagesNext]_vars

SpecStray == Init /\ [][StrayNext]_vars

\* several documents: edits, undo, redo, export and navigation while the
\* active tab is switched
IsolationNext ==
  \/ \E t \in Slots, n \in 1..MaxPages : CreateStart(t, n, "ok")
  \/ \E t \in Slots : CreateEnd(t)
  \/ \E t \in Slots, d \in 1..tabIdCounter, n \in 1..MaxPages : UpdateStart(t, d, n, "ok")
  \/ \E t \in Slots : UndoStart(t)
  \/ \E t \in Slots : RedoStart(t)
  \/ \E t \in Slots : LoadResolves(t)
  \/ \E t \in Slots : UpdateEndStep(t)
  \/ \E t \in Slots : UndoRedoEnd(t)
  \/ downloadActiveDocument
  \/ \E pageNum \in PageNumbers : goToPage(pageNum)
  \/ \E docId \in 1..tabIdCounter : switchToDocument(docId)

SpecIsolation == Init /\ [][IsolationNext]_vars

(***************************************************************************)
(* viewer.ts and documentManager.ts: the renders the registry asks for and *)
(* clearViewer when the last tab is closed                                 *)
(***************************************************************************)
\* doc.pdfJsDoc?.destroy() as the calls on that handle see it: pdf.js rejects
\* a getPage that is still pending on a destroyed document and cancels the
\* render tasks of its pages
DestroyedReqs(rs, vs, h) ==
  [r \in 1..Len(rs) |-> IF vs[r].of = h /\ rs[r].task = "running"
                          THEN [rs[r] EXCEPT !.task = "cancelSent"] ELSE rs[r]]

DestroyedVia(vs, h) ==
  [r \in 1..Len(vs) |-> IF vs[r].of = h THEN [vs[r] EXCEPT !.dead = TRUE] ELSE vs[r]]

\* refreshViewerFn() at the end of a registry operation, after the registry
\* changed: refreshViewer() to the "await doc.pdfJsDoc.getPage(...)" of
\* renderCurrentPage(doc) for the document that is active now, or its early
\* return when none is
Refreshes(rs, vs) ==
  IF activeDocIndex' >= 0
    THEN LET handle == heap'[documents'[activeDocIndex' + 1]].pdfJsDoc
         IN /\ reqs' = Append(rs, NewRequest)
            /\ via' = Append(vs, [of |-> handle.of.v, dead |-> handle.destroyed])
    ELSE /\ reqs' = rs
         /\ via' = vs

\* createDocumentFromBytes returns: the new tab is shown
FileShown(t) ==
  /\ Len(reqs) < MaxRenders
  /\ CreateReturn(t)
  /\ Refreshes(reqs, via)
  /\ UNCHANGED <<currentRenderTask, canvas, thumbs>>
  /\ UNCHANGED <<ocrVars, toolVars, exportVars, selVars, openVars, pdfVars, zoomVars, runVars, splitVars>>

\* "await PDFDocument.load(newBytes)" of updateDocumentBytes resolves:
\* doc.pdfDoc is assigned and doc.pdfJsDoc destroyed
LoadDestroys(t) ==
  /\ LoadReturn(t)
  /\ LET h == heap[tasks[t].doc].pdfJsDoc.of.v
     IN /\ reqs' = DestroyedReqs(reqs, via, h)
        /\ via' = DestroyedVia(via, h)
  /\ UNCHANGED <<currentRenderTask, canvas, thumbs>>
  /\ UNCHANGED <<ocrVars, toolVars, exportVars, selVars, openVars, pdfVars, zoomVars, runVars, splitVars>>

\* updateDocumentBytes from the resolution of getDocument to its
\* refreshViewerFn() and return
UpdateShown(t) ==
  /\ Len(reqs) < MaxRenders
  /\ UpdateReturn(t)
  /\ Refreshes(reqs, via)
  /\ UNCHANGED <<currentRenderTask, canvas, thumbs>>
  /\ UNCHANGED <<ocrVars, toolVars, exportVars, selVars, openVars, pdfVars, zoomVars, runVars, splitVars>>

\* forceCloseDocument(docId) on an open document: destroy, splice, then
\* clearViewerFn() when no tab is left, refreshViewerFn() otherwise
CloseShown(docId) ==
  /\ findIndex(documents, docId) # -1
  /\ Len(reqs) < MaxRenders \/ Len(documents) = 1
  /\ Remove(findIndex(documents, docId))
  /\ LET h == heap[docId].pdfJsDoc.of.v
         rs == DestroyedReqs(reqs, via, h)
         vs == DestroyedVia(via, h)
     IN IF Len(documents) = 1
          THEN /\ canvas' = 0
               /\ reqs' = CancelTracked(rs, currentRenderTask)
               /\ via' = vs
          ELSE /\ Refreshes(rs, vs)
               /\ UNCHANGED canvas
  /\ UNCHANGED <<currentRenderTask, thumbs>>
  /\ UNCHANGED <<tabIdCounter, tasks, clock, ref>>
  /\ UNCHANGED <<ocrVars, toolVars, exportVars, selVars, openVars, pdfVars, zoomVars, runVars, splitVars>>

\* getPage resolves on a handle that was not destroyed
PageShown(r) ==
  /\ ~via[r].dead
  /\ PageResolves(r)

\* one file is opened, edited and closed, and the renders this asks for
ClearNext ==
  \/ \E t \in Slots, n \in 1..MaxPages : OpenOne(t, n)
  \/ \E t \in Slots : FileShown(t)
  \/ \E t \in Slots, d \in 1..tabIdCounter, n \in 1..MaxPages : UpdateStart(t, d, n, "ok")
  \/ \E t \in Slots : LoadDestroys(t)
  \/ \E t \in Slots : UpdateShown(t)
  \/ \E docId \in 1..tabIdCounter : CloseShown(docId)
  \/ \E r \in 1..Len(reqs) : PageShown(r)
  \/ \E r \in 1..Len(reqs) : PageFails(r)
  \/ \E r \in 1..Len(reqs) : RenderCompletes(r)
  \/ \E r \in 1..Len(reqs) : CancelObserved(r)
  \/ \E r \in 1..Len(reqs) : RenderFails(r)

SpecClear == Init /\ [][ClearNext]_vars

(***************************************************************************)
(* viewer.ts: renderThumbnails and renderThumbnail                         *)
(***************************************************************************)
\* the renderThumbnail calls the for loop of one renderThumbnails call makes,
\* each up to its "await pdfDoc.getPage(pageNum)"
ThumbCalls(call, pageCount) ==
  [i \in 1..pageCount |-> [call |-> call, page |-> i, pc |-> "getPage"]]

\* the render call refreshViewer awaited has returned: renderThumbnails(doc),
\* the whole for loop; renderThumbnail(doc.pdfJsDoc, i, thumbCanvas) is called
\* in it and its promise is dropped
renderThumbnails(r) ==
  /\ r \in refreshing
  /\ reqs[r].pc = "done"
  /\ getActiveDocument # 0
  /\ refreshing' = refreshing \ {r}
  /\ thumbnails' = thumbnails + 1
  /\ thumbs' = thumbs \o ThumbCalls(thumbnails + 1, numPages(heap[getActiveDocument].pdfJsDoc))
  /\ UNCHANGED via
  /\ UNCHANGED <<currentZoom, fitting, renderVars>>
  /\ UNCHANGED <<docVars, ocrVars, toolVars, exportVars, selVars, openVars, pdfVars, runVars, splitVars>>

\* getPage resolved: the thumbnail canvas is sized and page.render started, up
\* to "await thumbRender.promise"
ThumbPageResolves(k) ==
  /\ thumbs[k].pc = "getPage"
  /\ thumbs' = [thumbs EXCEPT ![k].pc = "render"]
  /\ UNCHANGED via
  /\ UNCHANGED <<docVars, renderVars, ocrVars, toolVars, exportVars, selVars, openVars, pdfVars, zoomVars, runVars, splitVars>>

\* the thumbnail's render promise settles (drawn, or rejected and absorbed or
\* logged) or its getPage rejects (logged): the call returns
ThumbSettles(k) ==
  /\ thumbs[k].pc \in {"getPage", "render"}
  /\ thumbs' = [thumbs EXCEPT ![k].pc = "done"]
  /\ UNCHANGED via
  /\ UNCHANGED <<docVars, renderVars, ocrVars, toolVars, exportVars, selVars, openVars, pdfVars, zoomVars, runVars, splitVars>>

\* a file is opened and shown, the viewer refreshed
ThumbNext ==
  \/ \E t \in Slots, n \in 1..MaxPages : OpenOne(t, n)
  \/ \E t \in Slots : CreateEnd(t)
  \/ refreshViewer
  \/ \E r \in 1..Len(reqs) : PageResolves(r)
  \/ \E r \in 1..Len(reqs) : PageFails(r)
  \/ \E r \in 1..Len(reqs) : RenderCompletes(r)
  \/ \E r \in 1..Len(reqs) : CancelObserved(r)
  \/ \E r \in 1..Len(reqs) : RenderFails(r)
  \/ \E r \in 1..Len(reqs) : renderThumbnails(r)
  \/ \E k \in 1..Len(thumbs) : ThumbPageResolves(k)
  \/ \E k \in 1..Len(thumbs) : ThumbSettles(k)

SpecThumbs == Init /\ [][ThumbNext]_vars

(***************************************************************************)
(* toolOperations.ts: splitPDF                                             *)
(***************************************************************************)
\* splitPDF() up to "await PDFDocument.load(doc.pdfBytes)"
splitPDF ==
  /\ split.pc = "idle"
  /\ getActiveDocument # 0
  /\ split' = [NoSplit EXCEPT !.pc = "copy", !.doc = getActiveDocument,
                              !.base = heap[getActiveDocument].pdfBytes]
  /\ UNCHANGED <<docVars, renderVars, ocrVars, toolVars, exportVars, selVars, openVars, pdfVars, zoomVars, runVars, viewVars>>

\* one pass of the for loop, from the resolution of the await before it (the
\* load, or the createDocumentFromBytes of the pass before) and the test
\* "i < count" through PDFDocument.create, copyPages(pdfDoc, [i]), addPage and
\* save, none of which touches the registry, to the awaits of
\* createDocumentFromBytes(new Uint8Array(bytes), ...)
SplitCopies(t) ==
  /\ split.pc = "copy"
  /\ split.i < getPageCount(Parsed(split.base))
  /\ CreateCall(t, 1, "ok")
  /\ split' = [split EXCEPT !.pc = "create", !.task = t]
  /\ UNCHANGED <<renderVars, ocrVars, toolVars, exportVars, selVars, openVars, pdfVars, zoomVars, runVars, viewVars>>

\* createDocumentFromBytes returns to the loop: i++, and the loop test
SplitCreated(t) ==
  /\ split.pc = "create" /\ split.task = t
  /\ CreateReturn(t)
  /\ split' = [split EXCEPT !.i = @ + 1, !.task = 0,
                            !.made = Append(@, [id |-> tabIdCounter + 1, page |-> split.i]),
                            !.pc = IF split.i + 1 < getPageCount(Parsed(split.base))
                                     THEN "copy" ELSE "done"]
  /\ UNCHANGED <<renderVars, ocrVars, toolVars, exportVars, selVars, openVars, pdfVars, zoomVars, runVars, viewVars>>

\* a file opened by the user finishes loading
FileReturns(t) ==
  /\ t # split.task
  /\ OpenReturns(t)

\* the extraction's createDocumentFromBytes returns
ExtractReturns(t) ==
  /\ t # split.task
  /\ ToolReturns(t)

\* a file is opened, pages are selected and extracted, the document is split,
\* tabs are switched
SplitNext ==
  \/ \E t \in Slots, n \in 1..MaxPages : OpenOne(t, n)
  \/ \E t \in Slots : FileReturns(t)
  \/ \E index \in PageIndices : selectPage(index)
  \/ \E index \in PageIndices : deselectPage(index)
  \/ \E t \in Slots : extractPages(t)
  \/ \E t \in Slots : ExtractReturns(t)
  \/ splitPDF
  \/ \E t \in Slots : SplitCopies(t)
  \/ \E t \in Slots : SplitCreated(t)
  \/ \E docId \in 1..tabIdCounter : switchToDocument(docId)

SpecSplit == Init /\ [][SplitNext]_vars

\* The OCR session with the scheduling the browser gives: a posted message
\* is delivered, and the promises of pdf.js and of the main-thread Tesseract
\* settle.  Nothing obliges the user to click or Tesseract in the worker to
\* finish a recognition.
SpecOcrFair ==
  /\ Init
  /\ [][OcrNext]_vars
  /\ WF_vars(Dispatch)
  /\ WF_vars(WorkerReceives)
  /\ WF_vars(OcrPageResolves \/ OcrNoContext \/ OcrPageFails)
  /\ WF_vars(OcrRasterResolves \/ OcrRasterFails)
  /\ WF_vars((\E text \in Texts : FallbackResolves(text)) \/ FallbackFails)

(***************************************************************************)
(* Properties of the document registry                                     *)
(***************************************************************************)
Open(d) == findIndex(documents, d) # -1

\* slot t holds a call that began in this step
Begins(t, op) == tasks[t].op = "idle" /\ tasks'[t].op = op

\* slot t held a call of kind op that returns or throws in this step
Ends(t, op) == tasks[t].op = op /\ tasks'[t].op = "idle"

\* C1: Undo and redo are exact inverses.  For a document whose calls ran one
\* after the other and all succeeded, tl lists the states (bytes and page
\* metadata) the edits produced, starting with the opened one; whenever the
\* document is at rest it shows exactly the state tl[cur], with cur - 1
\* snapshots to undo and Len(tl) - cur to redo: k undos after N edits lead to
\* state N - k (the original for k = N), and k redos lead back.  And from
\* any state, an undo directly followed by a redo with no other call on the
\* document in between restores bytes, page metadata and both stacks.
C1_UndoRedoRoundTrip ==
  \A d \in 1..tabIdCounter :
    /\ (ref[d].ok /\ ~Busy(d)) =>
         /\ ref[d].cur \in 1..Len(ref[d].tl)
         /\ Core(heap[d]) = ref[d].tl[ref[d].cur]
         /\ Len(heap[d].undoStack) = ref[d].cur - 1
         /\ Len(heap[d].redoStack) = Len(ref[d].tl) - ref[d].cur
    /\ ref[d].pair = "undoredo" => Full(heap[d]) = ref[d].saved

\* two edits that changed the page count, then two undos: back at the original
C1_Witness ==
  \E d \in 1..tabIdCounter :
    /\ ref[d].ok /\ ~Busy(d)
    /\ Len(ref[d].tl) = 3 /\ ref[d].cur = 1
    /\ Len(heap[d].redoStack) = 2
    /\ Len(ref[d].tl[2].pageData) # Len(ref[d].tl[1].pageData)

\* C2: Every updateDocumentBytes call pushes exactly one Snapshot, holding
\* the bytes and page metadata current before the call, and empties the
\* redoStack; when the call has run alone and succeeded the undoStack is one
\* deeper than before the call, that Snapshot is on top, and the redoStack
\* is empty.
C2_UpdatePushesOneSnapshot ==
  [][\A t \in Slots :
       /\ Begins(t, "update") =>
            LET d == tasks'[t].doc
            IN /\ heap'[d].undoStack =
                    Append(heap[d].undoStack,
                           [pagesData |-> heap[d].pageData, pdfBytes |-> heap[d].pdfBytes])
               /\ heap'[d].redoStack = <<>>
       /\ (Ends(t, "update") /\ tasks[t].solo /\ RasterOk(tasks[t].bytes)) =>
            LET d == tasks[t].doc
                before == tasks[t].pre
            IN /\ Len(heap'[d].undoStack) = Len(before.undoStack) + 1
               /\ Last(heap'[d].undoStack) =
                    [pagesData |-> before.pageData, pdfBytes |-> before.pdfBytes]
               /\ heap'[d].redoStack = <<>>]_vars

\* an edit, an undo, and a second edit that settled: the redoStack the undo
\* filled is empty again
C2_Witness ==
  /\ tabIdCounter = 1 /\ clock = 3
  /\ ref[1].ok /\ ~Busy(1)
  /\ heap[1].pdfBytes.v = 3
  /\ Len(heap[1].undoStack) = 1
  /\ heap[1].redoStack = <<>>

\* C3 (as claimed): when the parse or the rasterizer open fails inside
\* updateDocumentBytes, undo or redo, the document is left exactly as it was
\* before the call.
C3_FailureLeavesDocumentUntouched ==
  [][\A t \in Slots :
       (/\ tasks[t].op \in {"update", "undo", "redo"}
        /\ tasks'[t].op = "idle"
        /\ ~RasterOk(tasks[t].bytes)
        /\ tasks[t].solo)
       => heap'[tasks[t].doc] = tasks[t].pre]_vars

\* C4 (as claimed): in every state the bytes, the parsed handle and a live
\* raster handle of an open document belong to the same edit generation.
C4_SameGeneration ==
  \A k \in 1..Len(documents) :
    LET doc == heap[documents[k]]
    IN /\ doc.pdfDoc.of = doc.pdfBytes
       /\ ~doc.pdfJsDoc.destroyed => doc.pdfJsDoc.of = doc.pdfBytes

\* C5: activeDocIndex is -1 exactly when no document is open, and is
\* otherwise an index into documents.
C5_ActiveIndexValid ==
  /\ activeDocIndex = -1 <=> Len(documents) = 0
  /\ Len(documents) > 0 => activeDocIndex \in 0..(Len(documents) - 1)

\* two documents were opened and the second, the last tab, was closed
C5_Witness ==
  /\ tabIdCounter = 2
  /\ documents = <<1>>
  /\ activeDocIndex = 0

\* C6: closeDocument(id) on a dirty document returns false (CloseAllowed is
\* its return value) and changes neither the list, the active index nor any
\* document; forceCloseDocument(id) on an open document removes it, dirty
\* or not.
C6_DirtyCloseGuard ==
  [][\A id \in 1..tabIdCounter :
       /\ (closeDocument(id) /\ Open(id) /\ heap[id].isDirty) =>
            /\ ~CloseAllowed(id)
            /\ UNCHANGED <<documents, activeDocIndex, heap>>
       /\ (forceCloseDocument(id) /\ Open(id)) =>
            /\ findIndex(documents', id) = -1
            /\ Len(documents') = Len(documents) - 1]_vars

\* a dirty document is gone while another tab is still open: closeDocument
\* refuses dirty documents, so forceCloseDocument removed it
C6_Witness ==
  /\ \E d \in 1..tabIdCounter : ~Open(d) /\ heap[d].isDirty
  /\ Len(documents) >= 1

(***************************************************************************)
(* Properties of the main canvas                                           *)
(***************************************************************************)
\* every renderCurrentPage call made so far has returned
AllSettled == \A r \in 1..Len(reqs) : reqs[r].pc = "done"

\* C7 (as claimed): for overlapping renderCurrentPage calls none of which
\* failed, once all of them have settled, the only render output left on the
\* canvas is that of the most recently requested render: the canvas is blank
\* (cleared) or shows what the last call drew, never what an earlier call
\* drew.  (Cancellations of superseded tasks end in CancelObserved, never in
\* the logged outcome.)
C7_LatestRenderWins ==
  (/\ Len(reqs) > 0
   /\ AllSettled
   /\ \A r \in 1..Len(reqs) : reqs[r].out # "logged")
  => canvas \in {0, Len(reqs)}

\* C8 (as claimed): at most one main-canvas render task is alive, started
\* and neither settled nor sent cancel().
C8_AtMostOneAlive ==
  Cardinality({r \in 1..Len(reqs) : reqs[r].task = "running"}) <= 1

(***************************************************************************)
(* Properties of the OCR session                                           *)
(***************************************************************************)
\* the message cancelListener posts
CancelMessage == [id |-> <<"cancel", 0>>, action |-> "terminate"]

IsPrefix(a, b) == Len(a) <= Len(b) /\ SubSeq(b, 1, Len(a)) = a

\* C9 (as claimed): when ocr() has returned, a worker the session acquired
\* is terminated, whether the pages were all done, a page failed or the
\* session was cancelled.
C9_WorkerTerminatedOnExit ==
  (ocrPc = "done" /\ worker # "none") => worker = "terminated"

C12_BlankPagesYieldSentinel ==
  (/\ ocrPc = "done"
   /\ ~cancelled
   /\ Len(outcomes) = Len(targets)
   /\ \A k \in 1..Len(outcomes) : outcomes[k] = Recognized(""))
  => published = Sentinel

(***************************************************************************)
(* Properties of the tools                                                 *)
(***************************************************************************)
\* the tool operations and undo / redo / updateDocumentBytes calls in flight
\* on document d
InFlight(d) ==
  Cardinality({k \in ToolSlots : tools[k].pc # "idle" /\ tools[k].doc = d})
  + Cardinality({t \in Slots : tasks[t].op \in {"update", "undo", "redo"} /\ tasks[t].doc = d})

\* C13 (as claimed): at no time are two tool operations, or a tool operation
\* and an undo or redo, in flight on the same document.
C13_ToolActionsSerialized ==
  \A d \in 1..tabIdCounter : InFlight(d) <= 1

\* C14 (as claimed): when a tool commits, the Snapshot its updateDocumentBytes
\* call pushes holds exactly the bytes the tool loaded, whatever ran on the
\* document while the tool was suspended.
C14_SnapshotHoldsLoadedBytes ==
  [][\A k \in ToolSlots :
       (tools[k].pc = "waiting" /\ tools'[k].pc = "idle" /\ heap' # heap)
       => Last(heap'[tools[k].doc].undoStack).pdfBytes = tools[k].base]_vars

(***************************************************************************)
(* Properties of closing a document during an OCR session                  *)
(***************************************************************************)
\* C15 (as claimed): a document that has left the documents list has had its
\* raster handle released, and no OCR worker of a session on it is alive.
C15_CloseReleasesHandleAndWorker ==
  \A d \in 1..tabIdCounter :
    ~Open(d) => /\ heap[d].pdfJsDoc.destroyed
                /\ ~(ocrDoc = d /\ worker = "alive")

(***************************************************************************)
(* Properties of page navigation                                           *)
(***************************************************************************)
\* C16 (as claimed): for every open document on which no call is suspended,
\* currentPage lies between 1 and the page count of the document's current
\* bytes, after any sequence of goToPage, updateDocumentBytes, undo and redo.
C16_CurrentPageInRange ==
  \A k \in 1..Len(documents) :
    LET doc == heap[documents[k]]
    IN ~Busy(doc.id) => (1 <= doc.currentPage /\ doc.currentPage <= doc.pdfBytes.n)

(***************************************************************************)
(* Properties of export                                                    *)
(***************************************************************************)
\* a Snapshot is pushed on one of the stacks of document d in this step
Pushed(d) ==
  \/ Len(heap'[d].undoStack) > Len(heap[d].undoStack)
  \/ Len(heap'[d].redoStack) > Len(heap[d].redoStack)

\* C17 (as claimed): every step that pushes a Snapshot for a document (in
\* updateDocumentBytes, undo or redo) leaves the document dirty, and no step
\* clears isDirty except export (which marks clean); so a document is dirty
\* whenever a Snapshot was pushed since it was opened or last exported, and
\* closeDocument refuses it.
C17_DirtyAfterPush ==
  [][\A d \in 1..tabIdCounter :
       /\ Pushed(d) => heap'[d].isDirty /\ ~CloseAllowed(d)'
       /\ (heap[d].isDirty /\ ~downloadActiveDocument) => heap'[d].isDirty]_vars

(***************************************************************************)
(* Properties of the selection tools                                       *)
(***************************************************************************)
\* C18 (as claimed): whichever selection tool ran last (rotate, watermark,
\* stamps, sign, annotate, deletePages, extractPages), it completed normally
\* and acted on exactly the in-range indices of the selection it read, an
\* empty selection standing for the current page.
C18_EmptyMeansCurrentAndSkips ==
  lastRun.how # "none" =>
    LET claimed == IF lastRun.selected = <<>>
                     THEN {lastRun.currentPage - 1}
                     ELSE Elements(lastRun.selected)
    IN /\ lastRun.how = "completed"
       /\ lastRun.pages = {i \in claimed : i >= 0 /\ i < lastRun.pageCount}

(***************************************************************************)
(* Properties of opening files                                             *)
(***************************************************************************)
\* C19: when the parse or the rasterizer open fails in
\* createDocumentFromBytes, the step that ends the call creates no document:
\* the documents list, activeDocIndex, the id counter and every existing
\* document are unchanged; the rejection reaches handleFiles, which shows its
\* "Error" alert and clears the processing flag.
C19_FailedOpenCreatesNothing ==
  [][\A t \in Slots :
       (/\ tasks[t].op = "create"
        /\ ~RasterOk(tasks[t].bytes)
        /\ tasks'[t] # tasks[t])
       => /\ tasks'[t] = Idle
          /\ UNCHANGED <<documents, activeDocIndex, heap, tabIdCounter>>
          /\ filesTask = t => (alertShown' = "Error" /\ ~isProcessing')]_vars

\* handleFiles was given a well-formed file and a corrupt one: the first is
\* open and active, the second was rejected and reported
C19_Witness ==
  /\ alertShown = "Error"
  /\ filesPc = "idle"
  /\ Len(documents) = 1
  /\ activeDocIndex = 0
  /\ tabIdCounter = 1

(***************************************************************************)
(* Properties of the download name                                         *)
(***************************************************************************)
\* the name a base stands for: <base>_edited.pdf, or a timestamp-based name
\* when the base is empty or reserved in any letter case
NamedAfter(name, base) ==
  IF base = <<>> \/ toUpperCase(base) \in reservedNames
    THEN \E now \in 0..MaxClock : name = TimestampName(now) \o EditedPdf
    ELSE name = base \o EditedPdf

ConPdf == <<"C","O","N",".","p","d","f">>
ConEditedPdf == <<"C","O","N","_","e","d","i","t","e","d",".","p","d","f">>
ReportEditedPdf == <<"r","e","p","o","r","t","_","e","d","i","t","e","d",".","p","d","f">>

C21_RotateLeftAndUndo ==
  \A j \in 1..Len(documents) :
    LET doc == heap[documents[j]]
        was == Rotations(lastEdit.was)
        now == Rotations(contents[doc.pdfBytes.v])
    IN (~Busy(doc.id) /\ lastEdit.doc = doc.id /\ lastEdit.tool = "rotateLeft") =>
         /\ doc.pdfBytes.v = lastEdit.after =>
              /\ Len(now) = Len(was)
              /\ \A i \in 1..Len(now) :
                   now[i] = IF (i - 1) \in lastEdit.arg
                              THEN (was[i] - 90) % 360
                              ELSE was[i]
         /\ (doc.redoStack # <<>> /\ Last(doc.redoStack).pdfBytes.v = lastEdit.after) =>
              now = was

\* a two-page file with angles 0 and -90 had its second page rotated left
\* and the rotate was undone
C21_Witness ==
  /\ Len(documents) = 1 /\ ~Busy(1)
  /\ lastEdit.tool = "rotateLeft" /\ lastEdit.arg = {1} /\ lastEdit.after = 2
  /\ Rotations(lastEdit.was) = <<0, -90>>
  /\ heap[1].redoStack # <<>>
  /\ heap[1].pdfBytes.v = 1
  /\ Rotations(contents[2]) = <<0, 180>>

\* the pages of files 1..Len(counts), file after file
RECURSIVE FilesInOrder(_, _)
FilesInOrder(counts, j) ==
  IF j > Len(counts) THEN <<>>
  ELSE OtherPages(j, counts[j]) \o FilesInOrder(counts, j + 1)

RECURSIVE Sum(_)
Sum(counts) == IF counts = <<>> THEN 0 ELSE Head(counts) + Sum(Tail(counts))

\* C22: mergeFiles and undo called one after the other.  While the document
\* holds the buffer mergeFiles saved, its pages are the pages it had followed
\* by the pages of the files in list order, as many as the counts add up to,
\* and the undo stack is one Snapshot deeper, with the former pages on top;
\* once an undo has put that buffer on redoStack the document has its former
\* pages again.
C22_MergeAppendsInOrder ==
  \A j \in 1..Len(documents) :
    LET doc == heap[documents[j]]
        now == contents[doc.pdfBytes.v]
    IN (~Busy(doc.id) /\ lastEdit.doc = doc.id /\ lastEdit.tool = "mergeFiles") =>
         /\ doc.pdfBytes.v = lastEdit.after =>
              /\ now = lastEdit.was \o FilesInOrder(lastEdit.arg, 1)
              /\ Len(now) = Len(lastEdit.was) + Sum(lastEdit.arg)
              /\ doc.pdfBytes.n = Len(now)
              /\ getPageCount(doc.pdfDoc) = Len(now)
              /\ Len(doc.undoStack) = lastEdit.depth + 1
              /\ contents[Last(doc.undoStack).pdfBytes.v] = lastEdit.was
         /\ (doc.redoStack # <<>> /\ Last(doc.redoStack).pdfBytes.v = lastEdit.after) =>
              /\ now = lastEdit.was
              /\ Len(doc.undoStack) = lastEdit.depth

\* a two-page document has two files merged into it, of one and two pages
C22_Witness ==
  /\ Len(documents) = 1 /\ ~Busy(1)
  /\ lastEdit.tool = "mergeFiles" /\ lastEdit.arg = <<1, 2>>
  /\ Len(lastEdit.was) = 2
  /\ heap[1].pdfBytes.v = lastEdit.after
  /\ Len(contents[heap[1].pdfBytes.v]) = 5

(***************************************************************************)
(* Properties of document ids                                              *)
(***************************************************************************)
\* C23: no two documents ever created (heap keeps the closed ones too) have
\* the same id, whatever the order in which overlapping creates finish and
\* whichever documents were closed in between.
C23_IdsNeverReused ==
  \A i \in 1..Len(heap) : \A j \in 1..Len(heap) :
    i # j => heap[i].id # heap[j].id

\* the first document was closed and two more were created after it, the
\* third while the list held one tab
C23_Witness ==
  /\ Len(heap) = 3
  /\ documents = <<2, 3>>
  /\ heap[1].pdfJsDoc.destroyed

(***************************************************************************)
(* Properties of the zoom controls                                         *)
(***************************************************************************)
\* C24 (as claimed): after any sequence of zoomIn, zoomOut, fitToPage and
\* setZoom calls the zoom factor lies within [MIN_ZOOM, MAX_ZOOM], that is
\* within [0.25, 4.0].
C24_ZoomInRange == currentZoom \in 25..400

\* the rest of the claim: a step that changes the zoom makes one render call
\* of the current page when a document is active, and no step that changes
\* the zoom renders thumbnails; zoomIn at MAX_ZOOM and zoomOut at MIN_ZOOM
\* are not steps at all
ZoomRendersCurrentPageOnly ==
  [][currentZoom' # currentZoom =>
       /\ thumbnails' = thumbnails
       /\ getActiveDocument # 0 => reqs' = Append(reqs, NewRequest)
       /\ getActiveDocument = 0 => reqs' = reqs]_vars

(***************************************************************************)
(* Properties of the tracked render task                                   *)
(***************************************************************************)
\* C25 (as claimed): the tracked render task reference is cleared only by
\* the settlement of the task it refers to; when a superseded task settles
\* while a newer task is tracked, the reference still points at the newer
\* task.
C25_ClearedOnlyByOwnSettlement ==
  [][(currentRenderTask # 0 /\ currentRenderTask' = 0) =>
       /\ reqs[currentRenderTask].task # "settled"
       /\ reqs'[currentRenderTask].task = "settled"]_vars

\* C26 (as claimed): a renderCurrentPage call whose render task settled has
\* drawn the page, has absorbed the cancellation of its superseded task and
\* returned normally, or has thrown the failure of its task to its caller;
\* it has not returned normally after a failure that is not a cancellation.
C26_FailurePropagates ==
  \A r \in 1..Len(reqs) :
    (reqs[r].pc = "done" /\ reqs[r].task = "settled") =>
      reqs[r].out \in {"drawn", "cancelled", "thrown"}

(***************************************************************************)
(* Properties of OCR cancellation and of the worker's messages             *)
(***************************************************************************)
\* C27 (as claimed): when the cancellation flag is set while a recognition
\* request is outstanding, the session ends even if the worker never answers
\* the request: ocr() returns, its cancel listener is removed and no request
\* is left pending.
C27_CancelEndsStalledSession ==
  (cancelled /\ ocrPc = "recognize") ~> (ocrPc = "done" /\ ~listening /\ pendingId = NoId)

\* C28 (as claimed): the cancellation flag is scoped to one session: the
\* flag of a session is set only by the Cancel button of that session's own
\* modal, so cancelling one of two running sessions leaves the flag of the
\* other unset.
C28_CancelScopedToSession ==
  [][\A s \in 1..Len(sessions) :
       (~sessions[s].cancelled /\ sessions'[s].cancelled) => textModal = s]_vars

\* the recognition requests posted to the worker and not yet answered
Outstanding ==
  {inbox[k].id : k \in {j \in 1..Len(inbox) : inbox[j].action = "recognize"}}
    \cup {j.id : j \in jobs}

\* C29: within an OCR session the pages are processed one at a time in
\* ascending page order: the selection and the target list taken from it are
\* strictly ascending (so duplicate-free) after any sequence of selectPage,
\* deselectPage, togglePageSelection, selectAllPages and clearPageSelection,
\* at most one recognition request is outstanding and it is the one for the
\* page the loop is at, and the loop is at page k+1 only when the pages
\* before it have all been handled.
C29_OnePageAtATimeAscending ==
  /\ \A i \in 1..Len(selectedPageIndices) : \A j \in 1..Len(selectedPageIndices) :
       i < j => selectedPageIndices[i] < selectedPageIndices[j]
  /\ \A i \in 1..Len(targets) : \A j \in 1..Len(targets) : i < j => targets[i] < targets[j]
  /\ Cardinality(Outstanding) <= 1
  /\ Len(SelectSeq(inbox, LAMBDA m : m.action = "recognize")) + Cardinality(jobs) <= 1
  /\ \A id \in Outstanding : ocrPc = "recognize" /\ id = pendingId /\ id = <<"ocr", idx>>
  /\ ocrPc \in {"getPage", "render", "recognize", "fallback"} => Len(outcomes) = idx - 1

\* pages 1 and 3 were selected by clicks that included a toggle off; page 1
\* has been handled and the request for page 3 is at the worker
C29_Witness ==
  /\ selectedPageIndices = <<0, 2>>
  /\ targets = <<1, 3>>
  /\ idx = 2 /\ ocrPc = "recognize"
  /\ Len(outcomes) = 1
  /\ Cardinality(jobs) = 1

\* C30: a worker message whose id is not the id of the pending recognition
\* request (a result of an earlier request, a 'terminated' reply, a message
\* for another request) is taken off the queue without resolving or
\* rejecting the pending request and without changing the accumulated text
\* or the reported progress.  (A step that takes the first message off the
\* queue and leaves the worker alive is the dispatch of that message.)
C30_OtherIdsIgnored ==
  [][(/\ outbox # <<>>
      /\ outbox' = Tail(outbox)
      /\ worker' = worker
      /\ Head(outbox).id # pendingId)
     => /\ ocrPc' = ocrPc /\ pendingId' = pendingId /\ idx' = idx
        /\ outcomes' = outcomes
        /\ fullText' = fullText /\ published' = published
        /\ progress' = progress]_vars

\* the session was cancelled while it went on to its second page: the
\* 'terminated' reply to the cancel message has been dispatched, and the
\* request of page 2 is still pending with the text of page 1 in place
C30_Witness ==
  /\ cancelled /\ worker = "alive"
  /\ ocrPc = "recognize" /\ idx = 2 /\ pendingId = <<"ocr", 2>>
  /\ inbox = <<>> /\ outbox = <<>>
  /\ jobs = {[id |-> <<"ocr", 2>>, progress |-> 0]}
  /\ Len(fullText) = 1

(***************************************************************************)
(* Properties of the OCR fallback                                          *)
(***************************************************************************)
\* the sections the pages the loop has left call for, in loop order: none
\* for a skipped page, the placeholder for a failed one, the text otherwise
ExpectedText ==
  LET kept == SelectSeq([k \in 1..Len(outcomes) |-> k], LAMBDA k : outcomes[k] # Skipped)
  IN [i \in 1..Len(kept) |->
        Section(targets[kept[i]],
                IF outcomes[kept[i]] = Failed THEN ErrorText ELSE outcomes[kept[i]].text)]

\* C31: when the worker could not be created the session is not aborted.
\* It recognizes in-process: every target page is gone through in target
\* order (all of them unless the session is cancelled), the sections and
\* the final publication are those the outcomes of the pages call for, the
\* same rule as with a worker, and no message is posted to or expected from
\* a worker and none is terminated.
C31_FallbackLikeWorkerPath ==
  /\ ocrPc \in {"getPage", "render", "recognize", "fallback"} => fullText = ExpectedText
  /\ ocrPc = "done" =>
       published = (IF ExpectedText = <<>> THEN Sentinel ELSE ExpectedText)
  /\ (ocrPc # "idle" /\ worker = "none") =>
       /\ ocrPc # "recognize"
       /\ inbox = <<>> /\ outbox = <<>> /\ jobs = {} /\ pendingId = NoId
       /\ (ocrPc = "done" /\ ~cancelled) => Len(outcomes) = Len(targets)

\* without a worker, pages 1, 2, 3: page 1 gave text, page 2 failed, page 3
\* gave text
C31_Witness ==
  /\ ocrPc = "done" /\ worker = "none" /\ ~cancelled
  /\ targets = <<1, 2, 3>>
  /\ outcomes = <<Recognized("text"), Failed, Recognized("text")>>
  /\ published = <<Section(1, "text"), Section(2, ErrorText), Section(3, "text")>>

(***************************************************************************)
(* Properties of the raster handles                                        *)
(***************************************************************************)
\* C32 (as claimed): no raster handle leaks.  A live handle leaves its
\* document only by being destroyed, never by being overwritten, whatever
\* the interleaving of updateDocumentBytes, undo, redo and the closes; and
\* once every call has settled a document that is no longer open holds no
\* live handle.
C32_NoHandleLeak ==
  [][\A d \in 1..Len(heap) :
       /\ (~heap[d].pdfJsDoc.destroyed /\ heap'[d].pdfJsDoc # heap[d].pdfJsDoc)
            => heap'[d].pdfJsDoc = Destroy(heap[d].pdfJsDoc)
       /\ ((\A t \in Slots : tasks'[t].op = "idle") /\ findIndex(documents', d) = -1)
            => heap'[d].pdfJsDoc.destroyed]_vars

(***************************************************************************)
(* Properties of isDirty under undo and redo                               *)
(***************************************************************************)
\* C33: no step of an undo or redo call (its synchronous beginning, the
\* resumption after the parse, its end) changes isDirty of any document: a
\* dirty document stays dirty, also when undone back to the bytes it was
\* opened with, and a clean one stays clean.
C33_UndoRedoKeepDirty ==
  [][\A t \in Slots :
       (/\ tasks'[t].op # tasks[t].op \/ tasks'[t].pc # tasks[t].pc
        /\ tasks[t].op \in {"undo", "redo"} \/ tasks'[t].op \in {"undo", "redo"})
       => \A d \in 1..Len(heap) : heap'[d].isDirty = heap[d].isDirty]_vars

\* a document edited once and undone back to the bytes it was opened with is
\* still dirty
C33_Witness ==
  /\ Len(documents) = 1 /\ ~Busy(1)
  /\ heap[1].undoStack = <<>> /\ Len(heap[1].redoStack) = 1
  /\ heap[1].pdfBytes.v = 1
  /\ heap[1].isDirty

\* a document edited, exported, undone and redone is still clean
C33_WitnessClean ==
  /\ Len(documents) = 1 /\ ~Busy(1)
  /\ Len(heap[1].undoStack) = 1 /\ heap[1].redoStack = <<>>
  /\ download # <<>>
  /\ ~heap[1].isDirty

(***************************************************************************)
(* Properties of the active tab when a tab is closed                       *)
(***************************************************************************)
\* C34: on every step that removes the tab at position index from documents:
\* if that tab was the active one, the document that followed it is active
\* afterwards, or the new last document when none followed, or none (index
\* -1, getActiveDocument() null) when the list became empty; if it was not
\* the active one, the document that was active is still the active one.
C34_ActiveAfterClose ==
  [][\A index \in 0..(Len(documents) - 1) :
       (/\ Len(documents') = Len(documents) - 1
        /\ \A k \in 1..Len(documents') :
             documents'[k] = IF k <= index THEN documents[k] ELSE documents[k + 1])
       => IF index = activeDocIndex
            THEN IF Len(documents) = 1
                   THEN activeDocIndex' = -1
                 ELSE IF index + 2 <= Len(documents)
                   THEN /\ activeDocIndex' \in 0..(Len(documents') - 1)
                        /\ documents'[activeDocIndex' + 1] = documents[index + 2]
                 ELSE activeDocIndex' = Len(documents') - 1
            ELSE /\ activeDocIndex' \in 0..(Len(documents') - 1)
                 /\ documents'[activeDocIndex' + 1] = documents[activeDocIndex + 1]]_vars

\* three documents were opened, the second was made active and the first
\* was closed: the second is still the active one, now at index 0
C34_Witness ==
  /\ tabIdCounter = 3
  /\ documents = <<2, 3>>
  /\ activeDocIndex = 0

\* the active middle tab of three was closed and the tab that followed it is
\* the active one
C34_WitnessFollowing ==
  /\ tabIdCounter = 3
  /\ documents = <<1, 3>>
  /\ activeDocIndex = 1

(***************************************************************************)
(* Properties of the isolation of documents                                *)
(***************************************************************************)
\* what a Document owns
Owned(doc) ==
  [pdfBytes |-> doc.pdfBytes, pageData |-> doc.pageData,
   undoStack |-> doc.undoStack, redoStack |-> doc.redoStack,
   isDirty |-> doc.isDirty, pdfDoc |-> doc.pdfDoc, pdfJsDoc |-> doc.pdfJsDoc]

\* the buffers a Document holds or has handles on, by their numbers
BuffersOf(doc) ==
  {doc.pdfBytes.v, doc.pdfDoc.of.v, doc.pdfJsDoc.of.v}
    \cup {doc.undoStack[k].pdfBytes.v : k \in 1..Len(doc.undoStack)}
    \cup {doc.redoStack[k].pdfBytes.v : k \in 1..Len(doc.redoStack)}

\* no buffer is held by two documents
NothingShared ==
  \A d, e \in 1..Len(heap) : d # e => BuffersOf(heap[d]) \cap BuffersOf(heap[e]) = {}

\* every other document keeps what it owns in this step
OthersKeep(d) ==
  \A e \in 1..Len(heap) : e # d => Owned(heap'[e]) = Owned(heap[e])

\* C35: every step of an updateDocumentBytes, undo or redo call (its
\* beginning, each resumption, its end) and every step of no such call (a
\* download, a page navigation, a switch of the active tab) leave the pdfBytes, pageData, undoStack, redoStack, isDirty and the two
\* handles of every document but the one it works on (the call's document,
\* else the active one) unchanged, also when
\* another tab was made active while the call was suspended; and no two
\* documents ever hold the same buffer or a handle on the same buffer.
C35_DocumentsIsolated ==
  /\ []NothingShared
  /\ [][/\ \A t \in Slots :
             (/\ tasks'[t].op # tasks[t].op \/ tasks'[t].pc # tasks[t].pc
              /\ tasks[t].op \in {"update", "undo", "redo"}
                   \/ tasks'[t].op \in {"update", "undo", "redo"})
             => OthersKeep(IF tasks[t].op = "idle" THEN tasks'[t].doc ELSE tasks[t].doc)
        /\ (tasks' = tasks /\ Len(heap') = Len(heap))
             => OthersKeep(getActiveDocument)]_vars

\* an undo of the first document is suspended at its first await while the
\* second document is the active one
C35_Witness ==
  /\ Len(documents) = 2
  /\ getActiveDocument = 2
  /\ \E t \in Slots : tasks[t].op = "undo" /\ tasks[t].doc = 1 /\ tasks[t].pc = "load"

(***************************************************************************)
(* Properties of splitPDF and extractPages                                 *)
(***************************************************************************)
\* a step of the splitPDF call or of an extractPages call
MakerStep ==
  \/ split' # split
  \/ \E t \in toolTasks \cup toolTasks' : tasks'[t].op # tasks[t].op

\* what the finished split has made: one single-page document per page of
\* the bytes it loaded, in page order, one behind the other in the tab list
SplitResult ==
  /\ Len(split.made) = split.base.n
  /\ \A j \in 1..Len(split.made) :
       /\ split.made[j].page = j - 1
       /\ heap[split.made[j].id].pdfBytes.n = 1
       /\ Len(heap[split.made[j].id].pageData) = 1
  /\ \A j \in 1..(Len(split.made) - 1) :
       findIndex(documents, split.made[j].id) < findIndex(documents, split.made[j + 1].id)

\* C36: every step of splitPDF and of extractPages on a non-empty selection
\* leaves pdfBytes, pageData, both stacks, isDirty and the handles of every
\* existing document (the source among them) unchanged; a step that makes a
\* document appends exactly one, with empty stacks and isDirty false, and
\* makes it the active one; and a finished splitPDF has appended exactly N
\* single-page documents in page order.
C36_NewDocumentsOnly ==
  /\ [](split.pc = "done" => SplitResult)
  /\ [][MakerStep =>
          /\ \A e \in 1..Len(heap) : Owned(heap'[e]) = Owned(heap[e])
          /\ Len(heap') \in {Len(heap), Len(heap) + 1}
          /\ Len(heap') = Len(heap) + 1 =>
               LET new == heap'[Len(heap')]
               IN /\ new.undoStack = <<>> /\ new.redoStack = <<>> /\ ~new.isDirty
                  /\ documents' = Append(documents, new.id)
                  /\ activeDocIndex' = Len(documents') - 1]_vars

\* a two-page document was split into two documents
C36_Witness ==
  /\ split.pc = "done"
  /\ Len(split.made) = 2
  /\ documents = <<1, 2, 3>>
  /\ getActiveDocument = 3

\* a page was extracted into a second document
C36_WitnessExtract ==
  /\ lastRun.how = "completed"
  /\ toolTasks = {}
  /\ documents = <<1, 2>>
  /\ split.pc = "idle"

(***************************************************************************)
(* Properties of the page metadata and the page count                      *)
(***************************************************************************)
\* a pagesData / pdfBytes pair with one record per page
Paired(pagesData, pdfBytes) == Len(pagesData) = pdfBytes.n

\* C37 (as claimed): whenever no updateDocumentBytes, undo or redo is
\* suspended on an open document, its pageData has as many records as its
\* pdfBytes has pages, and so has every Snapshot on its undoStack and its
\* redoStack.
C37_PageDataMatchesBytes ==
  \A k \in 1..Len(documents) :
    LET doc == heap[documents[k]]
    IN ~Busy(doc.id) =>
         /\ Paired(doc.pageData, doc.pdfBytes)
         /\ \A j \in 1..Len(doc.undoStack) :
              Paired(doc.undoStack[j].pagesData, doc.undoStack[j].pdfBytes)
         /\ \A j \in 1..Len(doc.redoStack) :
              Paired(doc.redoStack[j].pagesData, doc.redoStack[j].pdfBytes)

(***************************************************************************)
(* Properties of the canvas after the last tab was closed                  *)
(***************************************************************************)
\* C38 (as claimed): once the only document was closed and clearViewer has
\* run, the canvas is blank and stays blank: no renderCurrentPage call made
\* before draws a page onto it.
C38_CanvasStaysClear ==
  (tabIdCounter = 1 /\ documents = <<>>) => canvas = 0

(***************************************************************************)
(* Properties of the thumbnail strip                                       *)
(***************************************************************************)
\* the thumbnail renders of one renderThumbnails call whose page.render has
\* started and has not settled
Rendering(call) == {k \in 1..Len(thumbs) : thumbs[k].call = call /\ thumbs[k].pc = "render"}

\* C39 (as claimed): within one renderThumbnails call the render of a page is
\* started only after the renders of the pages before it have settled, so at
\* most one of its thumbnail renders is in flight.
C39_ThumbnailsOneAtATime ==
  /\ \A call \in 1..thumbnails : Cardinality(Rendering(call)) <= 1
  /\ \A k, m \in 1..Len(thumbs) :
       (thumbs[k].call = thumbs[m].call /\ thumbs[k].page < thumbs[m].page
          /\ thumbs[m].pc = "render")
       => thumbs[k].pc = "done"

(***************************************************************************)
(* Properties of the worker's message protocol                             *)
(***************************************************************************)
\* the ids of the recognitions in progress in the worker
Recognizing(js) == {j.id : j \in js}

\* the worker posts a message in this step
WorkerPosts == Len(outbox') = Len(outbox) + 1 /\ Front(outbox') = outbox

\* C40: while the worker runs, (1) a recognition with id X begins only when
\* the worker takes a 'recognize' request with id X off its queue, and ends
\* only in a step that posts one 'result' or 'error' message with id X, after
\* which nothing is in progress for X; (2) a 'progress' message carries the id
\* of a recognition that is in progress before and after the step, so it
\* precedes that terminal message; (3) a 'result' or 'error' message is
\* posted only for a recognition in progress; (4) taking a 'terminate' request
\* posts one 'terminated' message with the request's id and leaves every
\* recognition in progress as it was.
C40_WorkerProtocol ==
  [][(worker = "alive" /\ worker' = "alive") =>
       /\ \A x \in Recognizing(jobs') \ Recognizing(jobs) :
            /\ inbox # <<>> /\ inbox' = Tail(inbox)
            /\ Head(inbox).action = "recognize" /\ Head(inbox).id = x
            /\ outbox' = outbox
       /\ \A x \in Recognizing(jobs) \ Recognizing(jobs') :
            /\ WorkerPosts
            /\ Last(outbox').id = x /\ Last(outbox').type \in {"result", "error"}
       /\ WorkerPosts =>
            LET m == Last(outbox')
            IN /\ m.type \in {"progress", "result", "error", "terminated"}
               /\ m.type = "progress" =>
                    m.id \in Recognizing(jobs) /\ m.id \in Recognizing(jobs')
               /\ m.type \in {"result", "error"} =>
                    /\ m.id \in Recognizing(jobs) /\ m.id \notin Recognizing(jobs')
                    /\ Cardinality(jobs') = Cardinality(jobs) - 1
               /\ m.type = "terminated" =>
                    /\ inbox # <<>> /\ Head(inbox).action = "terminate"
                    /\ Head(inbox).id = m.id
               /\ m.type # "terminated" => inbox' = inbox
       /\ (inbox # <<>> /\ inbox' = Tail(inbox) /\ Head(inbox).action = "terminate") =>
            /\ jobs' = jobs
            /\ outbox' = Append(outbox, [id |-> Head(inbox).id, type |-> "terminated",
                                           text |-> ""])]_vars

\* the 'terminated' reply to a cancel was posted while a recognition is in
\* progress
C40_Witness ==
  /\ worker = "alive"
  /\ jobs # {}
  /\ \E k \in 1..Len(outbox) : outbox[k].type = "terminated"

\* a recognition has ended: its 'result' is the last message posted, after a
\* 'progress' message with the same id
C40_WitnessResult ==
  /\ worker = "alive"
  /\ Len(outbox) >= 2
  /\ outbox[Len(outbox)].type = "result"
  /\ outbox[Len(outbox) - 1].type = "progress"
  /\ outbox[Len(outbox) - 1].id = outbox[Len(outbox)].id

====
